---- MODULE Spec2Model ----
(***************************************************************************)
(* State-machine model of the batch orchestration and recovery controller  *)
(* of run_batches_simple.py: the main loop over batches, the Supervisor    *)
(* outcome of every run_batch call, the circuit breaker, the ordered model *)
(* fallback and the cooldown between batches.                              *)
(***************************************************************************)
EXTENDS Integers, Sequences, FiniteSets, TLC

\* ---------------------------------------------------------------- bounds
\* Largest number of batches split_into_batches may have produced.
MaxBatches == 3

\* How far below 1 and above the batch count --start and --end may lie.
MaxOutOfRange == 1

\* ------------------------------------------------------ program constants
\* FALLBACK_MODELS (model ids only; the descriptions are only printed).
FALLBACK_MODELS ==
    << "google:gemini-2.5-flash-lite",
       "google:gemini-3-pro-preview",
       "google:gemini-2.5-pro" >>

MAX_CONSECUTIVE_FAILURES == 2

\* Python's None for args.model and for a local not yet assigned.
None == "None"

\* The closed set of statuses run_batch can return.
Statuses ==
    {"success", "failed", "timeout", "rate_limited", "service_overloaded", "error"}

\* Provider lists of the base config templates the run is started with
\* (the file named by --config): the default Gemini config, a Gemini config
\* whose model is also in the roster, the OpenRouter config the script
\* recommends, and a mixed one.
BaseConfigs ==
    { << "google:gemini-2.5-flash" >>,
      << "google:gemini-2.5-flash-lite" >>,
      << "openrouter:meta-llama/llama-3" >>,
      << "google:gemini-2.5-flash", "openrouter:meta-llama/llama-3" >> }

\* Values of --model the run is started with.
ModelArgs == {None, "google:gemini-2.0-flash", "google:gemini-3-pro-preview"}

VARIABLES
    pc,                     \* position of main(): "loop", "fallback", "cooldown", "exit", "crash"
    total_batches,          \* len(batches)
    start_idx, end_idx,     \* loop range
    no_fallback,            \* args.no_fallback
    providers,              \* provider ids of the base config template
    i,                      \* loop index of main's for loop
    results,                \* list of BatchOutcome
    consecutive_api_errors, \* circuit-breaker counter
    current_model,          \* args.model, later the adopted fallback model
    result,                 \* main's local `result`: status of the primary run
    fb_idx,                 \* index into FALLBACK_MODELS inside _try_fallback_models
    attempts,               \* history: run_batch calls made for the current batch, in order
    errors_at_start,        \* history: the counter when the current iteration began
    cooled,                 \* history: whether time.sleep(args.delay) ran at the end of the last iteration
    partial_summary,        \* batch_summary_partial.json: <<>> if absent, else <<contents>>
    full_summary,           \* batch_summary.json: <<>> if absent, else <<contents>>
    merged,                 \* whether merge_results wrote reports/merged_results.json
    exit_code               \* -1 while running, else the process exit code

VARIABLES
    supervised              \* history: 1-based positions in `batches` of the batches given a primary run

VARIABLES
    results_on_disk         \* whether reports/batches holds a batch_*_results.json file

VARIABLES
    model_arg               \* args.model: the --model override, None if absent

VARIABLES
    resume_hint             \* the --start value of the printed resume command: <<>> if none was printed, else <<value>>

\* The state of main().
ctl_vars == << pc, total_batches, start_idx, end_idx, no_fallback, providers, i,
               results, consecutive_api_errors, current_model, result, fb_idx,
               attempts, errors_at_start, cooled, partial_summary, full_summary,
               merged, exit_code, supervised, results_on_disk, model_arg,
               resume_hint >>

\* run_batch (the Supervisor) and the processes it starts.
VARIABLES
    sup_pc,         \* "idle", "start", "waiting", "grace", "returned"
    os_name,        \* os.name: "posix" or "nt"
    process,        \* the Popen child: "none", "running", "exited", "killed"
    child,          \* a process the tool spawned in its group: "none", "running", "dead"
    term_ignored,   \* whether the tool's processes ignore the graceful signal
    return_code,    \* exit code of the tool, -1 while there is none
    output_json,    \* batch_NN_results.json: <<>> if absent, else <<artifact>>
    wrote,          \* history: this call's process wrote output_json
    sup_result,     \* status in the dict run_batch returned, None before
    signals,        \* history: the signals this call sent, as << signal, target >>
    leaked          \* history: a process of an earlier call is still running

sup_vars == << sup_pc, os_name, process, child, term_ignored, return_code,
               output_json, wrote, sup_result, signals, leaked >>

\* check_api_errors (the Classifier) applied to one artifact file.
VARIABLES
    cls_pc,         \* "idle", "start", "done"
    cls_file,       \* the file at the path given: <<>> if absent, else <<artifact>>
    cls_out         \* the tuple returned

cls_vars == << cls_pc, cls_file, cls_out >>

\* split_into_batches (the Splitter) as main() calls it.
VARIABLES
    spl_pc,         \* "idle", "start", "split", "loop", "done", "crash"
    tests,          \* the loaded test sequence
    batch_size,     \* args.batch_size
    batches,        \* the list split_into_batches returned
    reports_dir,    \* whether the directory reports/batches exists
    spl_exit        \* -1 while running, else the process exit code

spl_vars == << spl_pc, tests, batch_size, batches, reports_dir, spl_exit >>

\* create_batch_config (the Materializer) and the files it reads and writes.
VARIABLES
    mat_pc,         \* "idle", "ready"
    files,          \* the config files: path -> <<>> if absent, else <<config>>
    template,       \* history: the base config as it was before the first call
    made            \* history: per call, batch_num, model and the config written

mat_vars == << mat_pc, files, template, made >>

\* merge_results (the Merger) applied to a list of artifact files.
VARIABLES
    mrg_pc,         \* "idle", "start", "done"
    batch_files,    \* the artifacts loaded from the files given, in list order
    merged_file,    \* the output file: <<>> if absent, else <<merged artifact>>
    mrg_ok,         \* the value merge_results returned, None before
    remerged        \* <<>>, else <<the merge of merged_file with a further artifact>>

mrg_vars == << mrg_pc, batch_files, merged_file, mrg_ok, remerged >>

\* The inputs main() loads before its loop (lines 339-369).
VARIABLES
    tests_arg,          \* whether --tests was given
    tests_exists,       \* whether the file given with --tests exists
    config_exists,      \* whether the base config file exists
    stray_batch_file    \* history: a batch file was written for a batch never supervised

ld_vars == << tests_arg, tests_exists, config_exists, stray_batch_file >>

\* main() of merge_batch_results.py and the files under reports/.
VARIABLES
    mm_pc,          \* "idle", "ready"
    disk,           \* the result files: path -> artifact, for the paths that exist
    found,          \* the list sorted(glob.glob(pattern)) of the last run
    runs            \* history: per run, the merged artifact it wrote

mm_vars == << mm_pc, disk, found, runs >>

\* The state of the other components, which each component leaves alone.
other_vars == << sup_vars, cls_vars, spl_vars, mat_vars, mrg_vars, mm_vars, ld_vars >>
sup_others == << ctl_vars, cls_vars, spl_vars, mat_vars, mrg_vars, mm_vars, ld_vars >>
cls_others == << ctl_vars, sup_vars, spl_vars, mat_vars, mrg_vars, mm_vars, ld_vars >>
spl_others == << ctl_vars, sup_vars, cls_vars, mat_vars, mrg_vars, mm_vars, ld_vars >>
mat_others == << ctl_vars, sup_vars, cls_vars, spl_vars, mrg_vars, mm_vars, ld_vars >>
mrg_others == << ctl_vars, sup_vars, cls_vars, spl_vars, mat_vars, mm_vars, ld_vars >>
mm_others == << ctl_vars, sup_vars, cls_vars, spl_vars, mat_vars, mrg_vars, ld_vars >>
ld_others == << sup_vars, cls_vars, spl_vars, mat_vars, mrg_vars, mm_vars >>

vars == << ctl_vars, other_vars >>

\* Components that are not running in a specification stay idle.
CtlIdle ==
    /\ pc = "idle"
    /\ total_batches = 0 /\ start_idx = 0 /\ end_idx = 0
    /\ no_fallback = FALSE /\ providers = << >> /\ i = 0
    /\ results = << >> /\ consecutive_api_errors = 0
    /\ current_model = None /\ result = None /\ fb_idx = 0
    /\ attempts = << >> /\ errors_at_start = 0 /\ cooled = FALSE
    /\ partial_summary = << >> /\ full_summary = << >>
    /\ merged = FALSE /\ exit_code = -1 /\ supervised = << >>
    /\ results_on_disk = FALSE /\ model_arg = None /\ resume_hint = << >>

SupIdle ==
    /\ sup_pc = "idle" /\ os_name = "posix"
    /\ process = "none" /\ child = "none" /\ term_ignored = FALSE
    /\ return_code = -1 /\ output_json = << >> /\ wrote = FALSE
    /\ sup_result = None /\ signals = << >> /\ leaked = FALSE

ClsIdle ==
    /\ cls_pc = "idle" /\ cls_file = << >> /\ cls_out = << >>

SplIdle ==
    /\ spl_pc = "idle" /\ tests = << >> /\ batch_size = 0
    /\ batches = << >> /\ reports_dir = FALSE /\ spl_exit = -1

MatIdle ==
    /\ mat_pc = "idle" /\ files = << >> /\ template = << >> /\ made = << >>

MrgIdle ==
    /\ mrg_pc = "idle" /\ batch_files = << >> /\ merged_file = << >>
    /\ mrg_ok = None /\ remerged = << >>

MmIdle ==
    /\ mm_pc = "idle" /\ disk = << >> /\ found = << >> /\ runs = << >>

\* The inputs are there: the state main()'s loop starts from.
LdIdle ==
    /\ tests_arg = FALSE /\ tests_exists = FALSE /\ config_exists = TRUE
    /\ stray_batch_file = FALSE

\* Every component but c is idle.
OthersIdle(c) ==
    /\ c # "ctl" => CtlIdle
    /\ c # "sup" => SupIdle
    /\ c # "cls" => ClsIdle
    /\ c # "spl" => SplIdle
    /\ c # "mat" => MatIdle
    /\ c # "mrg" => MrgIdle
    /\ c # "mm" => MmIdle
    /\ c # "ld" => LdIdle

\* The command-line arguments and the loaded inputs never change.
args == << total_batches, start_idx, end_idx, no_fallback, providers,
          model_arg >>

\* ------------------------------------------------------------- helpers

\* provider['id'].startswith('google:gemini-')
IsGeminiFamily(id) ==
    id \in { "google:gemini-2.5-flash", "google:gemini-2.0-flash",
             "google:gemini-2.5-flash-lite", "google:gemini-3-pro-preview",
             "google:gemini-2.5-pro" }

\* An entry of the config's providers list: a mapping with an 'id' key
\* (form "dict") or a bare provider string (form "str").
ProviderEntry(form, id) == [form |-> form, id |-> id]

\* Lines 97-102: if fallback_model, an entry that is a dict with an 'id'
\* starting with 'google:gemini-' gets the fallback model as its id.
RewriteProvider(provider, fallback_model) ==
    IF /\ fallback_model # None
       /\ provider.form = "dict"
       /\ IsGeminiFamily(provider.id)
    THEN [provider EXCEPT !.id = fallback_model]
    ELSE provider

\* Provider rewrite of create_batch_config: with a fallback model every
\* provider of the Gemini family becomes that model; the result is the
\* provider list of the materialized config the attempt runs.
create_batch_config(base, fallback_model) ==
    [ k \in DOMAIN base |->
        RewriteProvider(ProviderEntry("dict", base[k]), fallback_model).id ]

\* Faulty variant: the candidate loop without its `continue`, so the current
\* model is retried as a candidate.
NextCandidate_NoSkip(k, cur) == k

\* Index of the first roster entry at or after k that is not the current
\* model (the `continue` of the candidate loop); Len+1 when none is left.
RECURSIVE NextCandidate(_, _)
NextCandidate(k, cur) ==
    IF k > Len(FALLBACK_MODELS) THEN k
    ELSE IF FALLBACK_MODELS[k] = cur THEN NextCandidate(k + 1, cur)
    ELSE k

\* The dict run_batch returns (elapsed and error counts do not steer main).
BatchOutcome(n, st) == [batch_num |-> n, status |-> st]

\* One run_batch call: the model passed to create_batch_config, the
\* providers of the config it ran, and the status it returned.
Attempt(m, st) ==
    [model |-> m, config |-> create_batch_config(providers, m), status |-> st]

\* Faulty variant: results.append(retry_result) instead of replacing.
ReplaceLast_Appends(rs, r) == Append(rs, r)

\* results[-1] = retry_result
ReplaceLast(rs, r) == [rs EXCEPT ![Len(rs)] = r]

\* Faulty variant: the hint names the batch after the halting one.
ResumeStart_NextBatch == i + 2

\* The batch_num every call of _save_partial_and_exit passes, printed as
\* `--start {batch_num}`: the batch of the current iteration.
ResumeStart == i + 1

\* Faulty variant: the outcome of the halting batch is not saved.
SavePartialAndExit_DropsLast(rs) ==
    /\ partial_summary' = << SubSeq(rs, 1, Len(rs) - 1) >>
    /\ resume_hint' = << ResumeStart >>
    /\ exit_code' = 1
    /\ pc' = "exit"

\* _save_partial_and_exit: dump results, sys.exit(1)
SavePartialAndExit(rs) ==
    /\ partial_summary' = << rs >>
    /\ resume_hint' = << ResumeStart >>
    /\ exit_code' = 1
    /\ pc' = "exit"

\* Falling out of the if/elif chain to the cooling delay.
Continue ==
    /\ pc' = "cooldown"
    /\ UNCHANGED << partial_summary, exit_code, resume_hint >>

\* Faulty variant: the threshold compared with > instead of >=.
CircuitBreaker_StrictlyAbove(rs) ==
    IF consecutive_api_errors' > MAX_CONSECUTIVE_FAILURES
    THEN SavePartialAndExit(rs)
    ELSE Continue

\* if consecutive_api_errors >= MAX_CONSECUTIVE_FAILURES: _save_partial_and_exit(...)
CircuitBreaker(rs) ==
    IF consecutive_api_errors' >= MAX_CONSECUTIVE_FAILURES
    THEN SavePartialAndExit(rs)
    ELSE Continue

\* "Determine range": an absent --start/--end is None, which the code tests
\* by truthiness, so None and 0 take the same branch; both are written 0.
StartIdx(start) == IF start # 0 THEN start - 1 ELSE 0

EndIdx(end, total) == IF end # 0 THEN end ELSE total

\* Values of --start and --end (any int parses), 0 also standing for None,
\* up to `out` below 1 and above the batch count.
ArgRange(total, out) == (0 - out)..(total + out)

\* batches[i]: Python list indexing, negative indexes counting from the end;
\* outside -len..len-1 it raises IndexError.
ValidIndex(k, total) == (0 - total) <= k /\ k < total

\* The 1-based position of batches[i] in the list.
Position(k, total) == IF k >= 0 THEN k + 1 ELSE total + k + 1

\* The arguments and the variables main() sets before its loop, for a
\* batch list of total_batches batches.
CtlInputs(out, configs, models) ==
    /\ \E start \in ArgRange(total_batches, out) : start_idx = StartIdx(start)
    /\ \E end \in ArgRange(total_batches, out) : end_idx = EndIdx(end, total_batches)
    /\ no_fallback \in BOOLEAN
    /\ providers \in configs
    /\ i = start_idx
    /\ results = << >>
    /\ consecutive_api_errors = 0
    /\ model_arg \in models
    /\ current_model = model_arg
    /\ result = None
    /\ fb_idx = 0
    /\ attempts = << >>
    /\ errors_at_start = 0
    /\ cooled = FALSE
    /\ partial_summary = << >>
    /\ full_summary = << >>
    /\ merged = FALSE
    /\ exit_code = -1
    /\ supervised = << >>
    /\ results_on_disk \in BOOLEAN
    /\ resume_hint = << >>

\* ---------------------------------------------------------------- Init
\* main() up to the loop, for --start/--end up to `out` outside 1..count,
\* a base config among `configs` and --model among `models`.
CtlInit(out, configs, models) ==
    /\ pc = "loop"
    /\ total_batches \in 1..MaxBatches
    /\ CtlInputs(out, configs, models)

\* Runs whose --start and --end lie within the batch list.
Init ==
    /\ CtlInit(0, BaseConfigs, ModelArgs)
    /\ OthersIdle("ctl")

\* Runs of the default config whose --start and --end may lie outside it.
RangeInit ==
    /\ CtlInit(MaxOutOfRange, {<< "google:gemini-2.5-flash" >>}, {None})
    /\ OthersIdle("ctl")

\* ------------------------------------------------- branches of the dispatch

\* status == "success"
OnSuccess ==
    /\ consecutive_api_errors' = 0
    /\ Continue
    /\ UNCHANGED fb_idx

\* Faulty variant: with --no-fallback a timeout is counted but never halts.
OnTimeout_NoBreaker ==
    /\ consecutive_api_errors' = consecutive_api_errors + 1
    /\ IF no_fallback
       THEN /\ Continue
            /\ UNCHANGED fb_idx
       ELSE /\ fb_idx' = NextCandidate(1, current_model)
            /\ pc' = "fallback"
            /\ UNCHANGED << partial_summary, exit_code, resume_hint >>

\* status == "timeout"
OnTimeout ==
    /\ consecutive_api_errors' = consecutive_api_errors + 1
    /\ IF no_fallback
       THEN /\ CircuitBreaker(results')
            /\ UNCHANGED fb_idx
       ELSE /\ fb_idx' = NextCandidate(1, current_model)
            /\ pc' = "fallback"
            /\ UNCHANGED << partial_summary, exit_code, resume_hint >>

\* Faulty variant: rate_limited handled like error (counted, halting only
\* at the threshold).
OnRateLimited_Counted ==
    /\ consecutive_api_errors' = consecutive_api_errors + 1
    /\ CircuitBreaker(results')
    /\ UNCHANGED fb_idx

\* status == "rate_limited"
OnRateLimited ==
    /\ SavePartialAndExit(results')
    /\ UNCHANGED << consecutive_api_errors, fb_idx >>

\* status == "service_overloaded"
OnServiceOverloaded ==
    /\ consecutive_api_errors' = consecutive_api_errors + 1
    /\ IF no_fallback
       THEN /\ CircuitBreaker(results')
            /\ UNCHANGED fb_idx
       ELSE /\ fb_idx' = NextCandidate(1, current_model)
            /\ pc' = "fallback"
            /\ UNCHANGED << partial_summary, exit_code, resume_hint >>

\* Faulty variant: failed handled like success (the counter is reset).
OnFailed_ResetsCounter ==
    /\ consecutive_api_errors' = 0
    /\ Continue
    /\ UNCHANGED fb_idx

\* Faulty variant: failed sent to the fallback selector like a timeout.
OnFailed_TriesFallback ==
    /\ UNCHANGED consecutive_api_errors
    /\ IF no_fallback
       THEN /\ Continue
            /\ UNCHANGED fb_idx
       ELSE /\ fb_idx' = NextCandidate(1, current_model)
            /\ pc' = "fallback"
            /\ UNCHANGED << partial_summary, exit_code, resume_hint >>

\* status == "failed"
OnFailed ==
    /\ Continue
    /\ UNCHANGED << consecutive_api_errors, fb_idx >>

\* Faulty variant: error escalated to the fallback selector like a timeout.
OnError_TriesFallback ==
    /\ consecutive_api_errors' = consecutive_api_errors + 1
    /\ IF no_fallback
       THEN /\ CircuitBreaker(results')
            /\ UNCHANGED fb_idx
       ELSE /\ fb_idx' = NextCandidate(1, current_model)
            /\ pc' = "fallback"
            /\ UNCHANGED << partial_summary, exit_code, resume_hint >>

\* status == "error"
OnError ==
    /\ consecutive_api_errors' = consecutive_api_errors + 1
    /\ CircuitBreaker(results')
    /\ UNCHANGED fb_idx

\* ------------------------------------------------------------- actions

\* Faulty variant: every primary attempt materialized with args.model.
PrimaryModel_FromArgs == model_arg

\* Line 402: fallback_model=current_model.
PrimaryModel == current_model

\* Whether a results file is in reports/batches after an attempt with
\* status st: the API statuses are read from the file at output_json, so
\* it is there; any other status comes with or without a file, and a file
\* of an earlier attempt stays.
LeftOnDisk(st) ==
    IF st \in {"rate_limited", "service_overloaded"}
    THEN {TRUE}
    ELSE {results_on_disk, TRUE}

\* One loop iteration up to its next blocking call: materialize the config
\* with current_model, run the primary attempt, append its outcome and
\* dispatch on its status.
RunPrimary(st) ==
    /\ pc = "loop"
    /\ i < end_idx
    /\ ValidIndex(i, total_batches)
    /\ supervised' = Append(supervised, Position(i, total_batches))
    /\ result' = st
    /\ results' = Append(results, BatchOutcome(i + 1, st))
    /\ attempts' = << Attempt(PrimaryModel, st) >>
    /\ errors_at_start' = consecutive_api_errors
    /\ cooled' = FALSE
    /\ CASE st = "success" -> OnSuccess
         [] st = "timeout" -> OnTimeout
         [] st = "rate_limited" -> OnRateLimited
         [] st = "service_overloaded" -> OnServiceOverloaded
         [] st = "failed" -> OnFailed
         [] st = "error" -> OnError
    /\ results_on_disk' \in LeftOnDisk(st)
    /\ UNCHANGED << args, i, current_model, full_summary, merged, other_vars >>

\* batch = batches[i] raises IndexError: the traceback ends the process with
\* exit code 1 and no summary is written.
IndexErrorCrash ==
    /\ pc = "loop"
    /\ i < end_idx
    /\ ~ ValidIndex(i, total_batches)
    /\ pc' = "crash"
    /\ exit_code' = 1
    /\ UNCHANGED << args, i, results, consecutive_api_errors, current_model,
                    result, fb_idx, attempts, errors_at_start, cooled,
                    partial_summary, full_summary, merged, supervised,
                    results_on_disk, resume_hint,
                    other_vars >>

\* Faulty variant: the returned candidate is not stored in current_model.
Adopt_KeepsModel(cand, st) ==
    /\ results' = ReplaceLast(results, BatchOutcome(i + 1, st))
    /\ consecutive_api_errors' = 0
    /\ UNCHANGED current_model
    /\ Continue
    /\ UNCHANGED fb_idx

\* retry_result["status"] in ["success", "failed"]: replace the outcome and
\* return the candidate, which main adopts and resets the counter for.
Adopt(cand, st) ==
    /\ results' = ReplaceLast(results, BatchOutcome(i + 1, st))
    /\ consecutive_api_errors' = 0
    /\ current_model' = cand
    /\ Continue
    /\ UNCHANGED fb_idx

\* Faulty variant: no threshold check after the selector returned None.
Reject_NoBreaker ==
    /\ fb_idx' = NextCandidate(fb_idx + 1, current_model)
    /\ UNCHANGED << results, consecutive_api_errors, current_model >>
    /\ IF fb_idx' <= Len(FALLBACK_MODELS)
       THEN /\ pc' = "fallback"
            /\ UNCHANGED << partial_summary, exit_code, resume_hint >>
       ELSE Continue

\* Any other status: go on with the next candidate; after the last one
\* return None, and main applies the circuit breaker.
Reject ==
    /\ fb_idx' = NextCandidate(fb_idx + 1, current_model)
    /\ UNCHANGED << results, consecutive_api_errors, current_model >>
    /\ IF fb_idx' <= Len(FALLBACK_MODELS)
       THEN /\ pc' = "fallback"
            /\ UNCHANGED << partial_summary, exit_code, resume_hint >>
       ELSE CircuitBreaker(results)

\* One candidate of _try_fallback_models: re-materialize with the candidate
\* and re-run the same batch.
TryFallback(st) ==
    /\ pc = "fallback"
    /\ fb_idx <= Len(FALLBACK_MODELS)
    /\ attempts' = Append(attempts, Attempt(FALLBACK_MODELS[fb_idx], st))
    /\ IF st \in {"success", "failed"}
       THEN Adopt(FALLBACK_MODELS[fb_idx], st)
       ELSE Reject
    /\ results_on_disk' \in LeftOnDisk(st)
    /\ UNCHANGED << args, i, result, errors_at_start, cooled, full_summary,
                    merged, supervised, other_vars >>

\* Faulty variant: the loop index is not advanced.
Cooldown_SameBatch ==
    /\ pc = "cooldown"
    /\ cooled' = (i < end_idx - 1 /\ result \in {"success", "failed"})
    /\ pc' = "loop"
    /\ UNCHANGED << args, i, results, consecutive_api_errors, current_model,
                    result, fb_idx, attempts, errors_at_start,
                    partial_summary, full_summary, merged, exit_code,
                    supervised, results_on_disk, resume_hint, other_vars >>

\* End of the iteration: the cooling delay, then the next index.
Cooldown ==
    /\ pc = "cooldown"
    /\ cooled' = (i < end_idx - 1 /\ result \in {"success", "failed"})
    /\ i' = i + 1
    /\ pc' = "loop"
    /\ UNCHANGED << args, results, consecutive_api_errors, current_model,
                    result, fb_idx, attempts, errors_at_start,
                    partial_summary, full_summary, merged, exit_code,
                    supervised, results_on_disk, resume_hint, other_vars >>

success_count(rs) == Cardinality({k \in DOMAIN rs : rs[k].status = "success"})

\* Lines 529-548: merge_results is called, and writes the merged artifact,
\* when a batch succeeded and the glob of line 535 found a file.
MergeWritten(rs) == success_count(rs) > 0 /\ results_on_disk

\* After the loop: write the full summary, merge the batch results.
Finish ==
    /\ pc = "loop"
    /\ i >= end_idx
    /\ full_summary' = << results >>
    /\ merged' = MergeWritten(results)
    /\ exit_code' = 0
    /\ pc' = "exit"
    /\ UNCHANGED << args, i, results, consecutive_api_errors, current_model,
                    result, fb_idx, attempts, errors_at_start, cooled,
                    partial_summary, supervised, results_on_disk, resume_hint, other_vars >>

\* Runs whose --start and --end lie within the batch list: batches[i] is
\* always defined there.
Next ==
    \/ \E st \in Statuses : RunPrimary(st)
    \/ \E st \in Statuses : TryFallback(st)
    \/ Cooldown
    \/ Finish

Spec == Init /\ [][Next]_vars

\* Runs with any --start and --end: batches[i] may raise IndexError.
RangeNext ==
    \/ Next
    \/ IndexErrorCrash

RangeSpec == RangeInit /\ [][RangeNext]_vars


\* ------------------------------------------------------ shared vocabulary

\* Statuses for which _try_fallback_models returns the candidate.
AdoptedStatuses == {"success", "failed"}

\* Infrastructure statuses that feed the circuit breaker.
CountedStatuses == {"timeout", "error", "service_overloaded"}

Last(s) == s[Len(s)]

\* The step is a primary run_batch call (a new batch was started).
PrimaryStep == Len(results') = Len(results) + 1

\* A fallback candidate was adopted for the current batch.
AdoptedNow == Len(attempts) > 1 /\ Last(attempts).status \in AdoptedStatuses

\* The run stopped through _save_partial_and_exit with this batch last.
HaltedHere ==
    /\ pc = "exit"
    /\ exit_code = 1
    /\ partial_summary = << results >>
    /\ full_summary = << >>
    /\ Len(results) = i - start_idx + 1
    /\ Last(results).batch_num = i + 1
    /\ ~ ENABLED Next

\* ------------------------------------------------------------------ C1
\* C1: whenever the primary run of a batch returns rate_limited, the run
\* writes the partial summary and stops at once with exit code 1: that
\* primary call is the only run_batch call of the batch (no fallback
\* candidate), no later batch starts, whatever the counter and whether or
\* not fallback is enabled.
C1_RateLimitedHalts ==
    result = "rate_limited" =>
        /\ HaltedHere
        /\ Len(attempts) = 1
        /\ Last(results).status = "rate_limited"
        /\ consecutive_api_errors = errors_at_start

\* A first rate-limited batch with the counter at 0 and fallback enabled,
\* with further batches left in the range.
C1_Witness ==
    /\ result = "rate_limited"
    /\ consecutive_api_errors = 0
    /\ ~ no_fallback
    /\ pc = "exit"
    /\ i + 1 < end_idx

\* The same with the counter at 1 (below the threshold).
C1_WitnessCounterOne ==
    /\ result = "rate_limited"
    /\ consecutive_api_errors = 1
    /\ pc = "exit"

\* ------------------------------------------------------------------ C2
\* C2 as stated: over one loop iteration the counter does not decrease when
\* the batch's outcome is timeout, error or service_overloaded, is zero
\* after a success and is unchanged by a failed outcome.
C2_AsStated ==
    (pc \in {"cooldown", "exit"} /\ Len(attempts) > 0) =>
        /\ result \in CountedStatuses => consecutive_api_errors >= errors_at_start
        /\ Last(results).status = "success" => consecutive_api_errors = 0
        /\ Last(results).status = "failed" => consecutive_api_errors = errors_at_start

\* C2 amended: over one loop iteration, a timeout, error or
\* service_overloaded primary outcome increments the counter, unless a
\* fallback candidate is adopted for the batch, which resets it to zero
\* (also when the adopted outcome is failed); a success outcome leaves it at
\* zero; a failed primary outcome leaves it unchanged.
C2_CounterPerOutcome ==
    Len(attempts) > 0 =>
        /\ (result \in CountedStatuses /\ ~ AdoptedNow)
              => consecutive_api_errors = errors_at_start + 1
        /\ AdoptedNow => consecutive_api_errors = 0
        /\ Last(results).status = "success" => consecutive_api_errors = 0
        /\ result = "failed" => consecutive_api_errors = errors_at_start

\* The counter stood at 1, the batch timed out and a candidate was adopted.
C2_Witness ==
    /\ errors_at_start = 1
    /\ result = "timeout"
    /\ AdoptedNow
    /\ consecutive_api_errors = 0
    /\ pc = "cooldown"

\* A failed primary outcome met with the counter at 1.
C2_WitnessFailed ==
    /\ errors_at_start = 1
    /\ result = "failed"
    /\ pc = "cooldown"

\* ------------------------------------------------------------------ C3
\* C3: with fallback disabled, the batch whose timeout, service_overloaded
\* or error outcome brings the counter to MAX_CONSECUTIVE_FAILURES is the
\* last batch of the run: the run has stopped there with the partial
\* summary written and nothing can run afterwards. In particular two
\* consecutive timeouts end the run at the second one.
C3_NoFallbackHalt ==
    no_fallback =>
        /\ consecutive_api_errors >= MAX_CONSECUTIVE_FAILURES =>
              /\ HaltedHere
              /\ result \in CountedStatuses
              /\ Len(attempts) = 1
        /\ \A k \in 1..(Len(results) - 1) :
              (results[k].status = "timeout" /\ results[k + 1].status = "timeout")
                  => (k + 1 = Len(results) /\ HaltedHere)
        /\ (result \in CountedStatuses /\ pc # "exit")
              => consecutive_api_errors < MAX_CONSECUTIVE_FAILURES

\* Outcomes [timeout, timeout] from the first batch of a range of three:
\* the run stopped and the third batch was never started.
C3_Witness ==
    /\ no_fallback
    /\ pc = "exit"
    /\ Len(results) = 2
    /\ results[1].status = "timeout"
    /\ results[2].status = "timeout"
    /\ end_idx - start_idx >= 3
    /\ consecutive_api_errors = MAX_CONSECUTIVE_FAILURES

\* ------------------------------------------------------------------ C4
\* C4: a primary outcome of failed never stops the run, never calls the
\* fallback selector and never changes current_model or the counter; the
\* iteration goes on to the next index, and the next batch is materialized
\* with that same model.
C4_FailedPassesThrough ==
    [][ /\ (PrimaryStep /\ result' = "failed") =>
              /\ pc' = "cooldown"
              /\ exit_code' = -1
              /\ partial_summary' = partial_summary
              /\ current_model' = current_model
              /\ consecutive_api_errors' = consecutive_api_errors
              /\ Len(attempts') = 1
        /\ (pc = "cooldown" /\ result = "failed") =>
              /\ pc' = "loop"
              /\ i' = i + 1
              /\ current_model' = current_model
              /\ current_model = attempts[1].model
        /\ (PrimaryStep /\ result = "failed") =>
              attempts'[1].model = attempts[1].model
      ]_vars

\* A batch was started right after a batch whose primary outcome was failed.
C4_Witness ==
    /\ pc = "loop"
    /\ result = "failed"
    /\ Len(results) >= 1
    /\ Len(attempts) = 1
    /\ i < end_idx
    /\ exit_code = -1

C6_Unrecovered ==
    [][ /\ ( /\ attempts' # attempts
             /\ result' \in {"timeout", "service_overloaded"}
             /\ Last(attempts').status \notin AdoptedStatuses
             /\ pc' # "fallback" ) =>
              IF consecutive_api_errors' >= MAX_CONSECUTIVE_FAILURES
              THEN /\ pc' = "exit"
                   /\ exit_code' = 1
                   /\ partial_summary' = << results' >>
                   /\ Last(results').status = result'
              ELSE /\ pc' = "cooldown"
                   /\ exit_code' = -1
                   /\ partial_summary' = << >>
                   /\ current_model' = current_model
        /\ ( /\ pc = "cooldown"
             /\ result \in {"timeout", "service_overloaded"}
             /\ ~ AdoptedNow ) =>
              /\ pc' = "loop"
              /\ i' = i + 1
              /\ current_model' = current_model
              /\ current_model = attempts[1].model
      ]_vars

\* Every candidate failed with the counter still under the threshold, and
\* the run moved on to the next index with the model it had.
C6_Witness ==
    /\ pc = "loop"
    /\ i < end_idx
    /\ result = "timeout"
    /\ ~ no_fallback
    /\ Len(attempts) = 1 + Len(FALLBACK_MODELS)
    /\ ~ AdoptedNow
    /\ consecutive_api_errors = 1
    /\ current_model = None

\* Every candidate failed with the counter at the threshold: halted.
C6_WitnessHalt ==
    /\ pc = "exit"
    /\ exit_code = 1
    /\ result = "service_overloaded"
    /\ ~ no_fallback
    /\ Len(attempts) = 1 + Len(FALLBACK_MODELS)
    /\ consecutive_api_errors = MAX_CONSECUTIVE_FAILURES

\* ------------------------------------------------------------------ C7
\* Number of batches started so far in this run.
Started ==
    IF pc \in {"loop", "crash"} \/ exit_code = 0 THEN i - start_idx ELSE i - start_idx + 1

\* The roster without the model the primary attempt was given.
RosterWithout(cur) == SelectSeq(FALLBACK_MODELS, LAMBDA m : m # cur)

\* The fallback candidates run so far on the current batch.
Tried == Tail(attempts)

\* C7: on one batch the selector runs the roster models in roster order,
\* leaving out the current model; a candidate returning success or failed
\* is the last one run and is the one returned (it becomes current_model);
\* the selector is still running only while candidates are left; it returns
\* None exactly when every roster model but the current one was run and
\* each returned timeout, rate_limited, service_overloaded or error.
C7_SelectorOrder ==
    Len(attempts) > 0 =>
        LET cands == RosterWithout(attempts[1].model) IN
        /\ Len(Tried) <= Len(cands)
        /\ \A k \in DOMAIN Tried : Tried[k].model = cands[k]
        /\ \A k \in 1..(Len(Tried) - 1) : Tried[k].status \notin AdoptedStatuses
        /\ pc = "fallback" =>
              /\ Len(Tried) < Len(cands)
              /\ FALLBACK_MODELS[fb_idx] = cands[Len(Tried) + 1]
              /\ Tried # << >> => Last(Tried).status \notin AdoptedStatuses
        /\ AdoptedNow =>
              /\ pc # "fallback"
              /\ current_model = Last(Tried).model
              /\ Last(results) = BatchOutcome(start_idx + Started, Last(Tried).status)
        /\ (Tried # << >> /\ pc # "fallback" /\ ~ AdoptedNow) =>
              /\ Len(Tried) = Len(cands)
              /\ \A k \in DOMAIN Tried : Tried[k].status \notin AdoptedStatuses
              /\ current_model = attempts[1].model
        /\ (Len(Tried) = Len(cands) /\ \A k \in DOMAIN Tried : Tried[k].status \notin AdoptedStatuses)
              => pc # "fallback"

\* The run began with the second roster model as --model: the selector ran
\* the first roster model (rate_limited), skipped the second and adopted
\* the third on a failed outcome.
C7_Witness ==
    /\ pc = "cooldown"
    /\ Len(attempts) = 3
    /\ attempts[1].model = FALLBACK_MODELS[2]
    /\ attempts[2] = Attempt(FALLBACK_MODELS[1], "rate_limited")
    /\ attempts[3] = Attempt(FALLBACK_MODELS[3], "failed")
    /\ current_model = FALLBACK_MODELS[3]

\* Every candidate was run and none was adopted.
C7_WitnessNone ==
    /\ pc = "cooldown"
    /\ Len(Tried) = Len(FALLBACK_MODELS)
    /\ ~ AdoptedNow

\* ------------------------------------------------------------------ C8
\* C8: results holds exactly one outcome per batch started in this run, in
\* ascending batch order; the outcome of the current batch is the adopted
\* candidate's outcome when one was adopted (in place of the primary
\* outcome) and the primary outcome otherwise, so outcomes of candidates
\* that were not adopted are never recorded.
C8_OneOutcomePerBatch ==
    /\ Len(results) = Started
    /\ \A k \in DOMAIN results : results[k].batch_num = start_idx + k
    /\ Len(attempts) > 0 =>
          Last(results).status =
              IF AdoptedNow THEN Last(attempts).status ELSE attempts[1].status
    /\ partial_summary # << >> => partial_summary = << results >>
    /\ full_summary # << >> => full_summary = << results >>

\* Batch 2 of the run timed out, one candidate was rejected and the next was
\* adopted with success: results has two entries and the second is success.
C8_Witness ==
    /\ pc = "cooldown"
    /\ Len(results) = 2
    /\ Len(attempts) = 3
    /\ attempts[1].status = "timeout"
    /\ attempts[2].status = "service_overloaded"
    /\ attempts[3].status = "success"
    /\ results[2] = BatchOutcome(start_idx + 2, "success")

\* ------------------------------------------------------------------ C9
\* C9: on one batch there are at most 1 + |roster| run_batch calls, and no
\* model is run twice: no two attempts on the batch run a config that names
\* the same provider.
C9_NoModelTwice ==
    /\ Len(attempts) <= 1 + Len(FALLBACK_MODELS)
    /\ \A j, k \in DOMAIN attempts :
          j < k => \A a \in DOMAIN attempts[j].config, b \in DOMAIN attempts[k].config :
                      attempts[j].config[a] # attempts[k].config[b]

\* The part of C9 that the code keeps: the number of retries on one batch
\* is at most the roster's length, and no roster model is passed to the
\* materializer twice on the batch.
C9_RetriesBounded ==
    /\ Len(attempts) <= 1 + Len(FALLBACK_MODELS)
    /\ \A j, k \in DOMAIN attempts : j < k => attempts[j].model # attempts[k].model

\* ----------------------------------------------------------------- C10
\* C10: whenever a batch is about to start after an earlier batch of the
\* run (so the run did not halt in between), the cooling delay was applied
\* at the end of the earlier iteration, whatever that batch's outcome.
C10_CooldownBetweenBatches ==
    (pc = "loop" /\ i > start_idx /\ i < end_idx) => cooled

\* What the code does: the delay runs exactly when the primary outcome of
\* the earlier batch was success or failed.
C10_CooldownOnlyAfterSuccessOrFailed ==
    (pc = "loop" /\ i > start_idx /\ i < end_idx) =>
        (cooled <=> result \in {"success", "failed"})

\* ----------------------------------------------------------------- C11
\* The batches of the list that lie in the 1-based range --start..--end.
InRange == {n \in 1..total_batches : start_idx + 1 <= n /\ n <= end_idx}

\* C11: for any --start/--end, the batches given a primary run are batches
\* of the list inside the 1-based range start..end, each under its own
\* number, in strictly ascending order and none twice; a run that completes
\* has supervised every batch of the range.
C11_ExactlyTheRange ==
    /\ Len(supervised) = Len(results)
    /\ \A k \in DOMAIN results :
          /\ results[k].batch_num = supervised[k]
          /\ supervised[k] \in InRange
    /\ \A j, k \in DOMAIN supervised : j < k => supervised[j] < supervised[k]
    /\ exit_code = 0 => {supervised[k] : k \in DOMAIN supervised} = InRange

\* The same for every --start that is not negative (and any --end), where
\* the code does keep it.
C11_NonNegativeStart ==
    0 <= start_idx => C11_ExactlyTheRange

\* A negative --start makes batches[i] count from the end of the list: a
\* batch is supervised under a number that is not its own, and again later.
C11_WitnessWrapAround ==
    /\ start_idx < 0
    /\ Len(supervised) >= 3
    /\ \E j, k \in DOMAIN supervised : j < k /\ supervised[j] = supervised[k]

\* ======================================================================
\* The Classifier: check_api_errors
\* ======================================================================

\* Most words of one error string, most records of one artifact.
MaxWords == 2

MaxRecords == 2

\* An error string is a sequence of fragments; a search phrase occurs in it
\* when it is one of the fragments.
Fragments ==
    { "429", "Too Many Requests", "Rate limit", "rate limit",
      "503", "Service Unavailable", "overloaded", "Overloaded",
      "connection reset" }

\* str.lower() of one fragment.
LowerFragment(f) ==
    CASE f = "Too Many Requests" -> "too many requests"
      [] f = "Rate limit" -> "rate limit"
      [] f = "Service Unavailable" -> "service unavailable"
      [] f = "Overloaded" -> "overloaded"
      [] OTHER -> f

\* error.lower()
Lower(error) == [k \in DOMAIN error |-> LowerFragment(error[k])]

\* phrase in error
In(phrase, error) == \E k \in DOMAIN error : error[k] = phrase

\* The `if` of the scan: the record counts as rate-limited.
IsRateLimited(error) ==
    In("429", error) \/ In("Rate limit", Lower(error)) \/ In("Too Many Requests", error)

\* The `elif` of the scan: the record counts as overloaded.
IsUnavailable(error) ==
    /\ ~ IsRateLimited(error)
    /\ (In("503", error) \/ In("Service Unavailable", error)
            \/ In("overloaded", Lower(error)))

\* A result artifact as the Classifier sees it: whether it parses as JSON,
\* and the error string of every record ("" is the empty sequence).
Artifact(ok, errs) == [valid |-> ok, errors |-> errs]

\* rate_limit_count: the records whose error text is a rate-limit one.
rate_limit_count(errs) ==
    Cardinality({k \in DOMAIN errs : IsRateLimited(errs[k])})

\* service_unavailable_count: the records whose error text is an overload one.
service_unavailable_count(errs) ==
    Cardinality({k \in DOMAIN errs : IsUnavailable(errs[k])})

\* check_api_errors(output_json) -> (error_type, rate_limit_count, 503 count)
check_api_errors(file) ==
    IF file = << >> THEN << None, 0, 0 >>
    ELSE IF ~ file[1].valid THEN << None, 0, 0 >>
    ELSE LET errs == file[1].errors
         IN  IF rate_limit_count(errs) > 0
             THEN << "429_rate_limit", rate_limit_count(errs), 0 >>
             ELSE IF service_unavailable_count(errs) > 0
             THEN << "503_overloaded", 0, service_unavailable_count(errs) >>
             ELSE << None, 0, 0 >>

\* Sequences over S of length at most n.
SeqsUpTo(S, n) == UNION {[1..m -> S] : m \in 0..n}

ErrorStrings == SeqsUpTo(Fragments, MaxWords)

ClsInit ==
    /\ cls_pc = "start"
    /\ cls_file \in {<< >>} \cup
          {<< Artifact(ok, errs) >> : ok \in BOOLEAN, errs \in SeqsUpTo(ErrorStrings, MaxRecords)}
    /\ cls_out = << >>
    /\ OthersIdle("cls")

Classify ==
    /\ cls_pc = "start"
    /\ cls_out' = check_api_errors(cls_file)
    /\ cls_pc' = "done"
    /\ UNCHANGED << cls_file, cls_others >>

ClsNext == Classify

ClsSpec == ClsInit /\ [][ClsNext]_vars

\* ----------------------------------------------------------------- C15
\* The markers as the specification names them: HTTP 429 or an equivalent
\* phrase ("Too Many Requests", "rate limit" in any case); HTTP 503,
\* "Service Unavailable" or "overloaded" in any case.
HasRateLimitMarker(error) ==
    In("429", error) \/ In("Too Many Requests", error) \/ In("rate limit", Lower(error))

HasOverloadMarker(error) ==
    In("503", error) \/ In("Service Unavailable", error) \/ In("overloaded", Lower(error))

\* The classification C15 describes, for a readable artifact.
Expected(errs) ==
    LET limited == Cardinality({k \in DOMAIN errs : HasRateLimitMarker(errs[k])})
        overloaded == Cardinality({k \in DOMAIN errs : HasOverloadMarker(errs[k])})
    IN  IF limited > 0 THEN << "429_rate_limit", limited, 0 >>
        ELSE IF overloaded > 0 THEN << "503_overloaded", 0, overloaded >>
        ELSE << None, 0, 0 >>

\* C15: for every readable artifact the Classifier reports rate_limited,
\* with the number of records carrying a rate-limit marker, whenever there
\* is such a record; service_overloaded, with the number of records
\* carrying an overload marker, only when no record is rate-limited; and
\* none when no record carries a marker.
C15_Classification ==
    (cls_pc = "done" /\ cls_file # << >> /\ cls_file[1].valid) =>
        cls_out = Expected(cls_file[1].errors)

\* The same for artifacts whose rate-limit records all carry "429" or
\* "Too Many Requests", which the code does recognise.
C15_CodedMarkers ==
    ( /\ cls_pc = "done" /\ cls_file # << >> /\ cls_file[1].valid
      /\ \A k \in DOMAIN cls_file[1].errors :
            HasRateLimitMarker(cls_file[1].errors[k])
                => (In("429", cls_file[1].errors[k])
                      \/ In("Too Many Requests", cls_file[1].errors[k])) ) =>
        cls_out = Expected(cls_file[1].errors)

\* The scenario of the specification: "429 Too Many Requests" in one record
\* and "503 overloaded" in another give rate_limited with count 1.
C15_WitnessScenario ==
    /\ cls_pc = "done"
    /\ cls_file = << Artifact(TRUE, << << "429", "Too Many Requests" >>,
                                      << "503", "overloaded" >> >>) >>
    /\ cls_out = << "429_rate_limit", 1, 0 >>

\* ======================================================================
\* The Supervisor: run_batch and the processes of the external tool
\* ======================================================================

\* Artifacts the tool may write (or may have left on disk earlier): no
\* error at all, rate-limit errors with the code, overload errors,
\* rate-limit errors spelled without the code.
SupArtifacts ==
    { Artifact(TRUE, << << >>, << >> >>),
      Artifact(TRUE, << << "429", "Too Many Requests" >>, << >> >>),
      Artifact(TRUE, << << "503", "Service Unavailable" >> >>),
      Artifact(TRUE, << << "Rate limit" >>, << >> >>) }

\* Lines 207-238: the status after the tool exited by itself.
RunBatchStatus(error_type, rc) ==
    IF error_type = "429_rate_limit" THEN "rate_limited"
    ELSE IF error_type = "503_overloaded" THEN "service_overloaded"
    ELSE IF rc = 0 THEN "success"
    ELSE "failed"

\* A process of this call is still running.
Alive == process = "running" \/ child = "running"

\* Effect of a signal sent to the whole group: every process of the group
\* that does not ignore it dies (nothing ignores the forced one).
KillGroup(ignorable) ==
    IF ignorable /\ term_ignored
    THEN UNCHANGED << process, child >>
    ELSE /\ process' = IF process = "running" THEN "killed" ELSE process
         /\ child' = IF child = "running" THEN "dead" ELSE child

\* Effect of Popen.terminate()/kill(): only the top-level process is hit
\* (POSIX terminate() is SIGTERM, which it may ignore).
KillProcess(ignorable) ==
    /\ process' = IF process = "running" /\ ~ (ignorable /\ term_ignored)
                  THEN "killed" ELSE process
    /\ UNCHANGED child

\* os.killpg(os.getpgid(process.pid), signal.SIGTERM) / process.terminate()
GracefulSignal ==
    IF os_name # "nt"
    THEN /\ KillGroup(TRUE)
         /\ signals' = Append(signals, << "terminate", "group" >>)
    ELSE /\ KillProcess(FALSE)
         /\ signals' = Append(signals, << "terminate", "process" >>)

\* os.killpg(os.getpgid(process.pid), signal.SIGKILL) / process.kill()
ForcedSignal ==
    IF os_name # "nt"
    THEN /\ KillGroup(FALSE)
         /\ signals' = Append(signals, << "kill", "group" >>)
    ELSE /\ KillProcess(FALSE)
         /\ signals' = Append(signals, << "kill", "process" >>)

SupInit ==
    /\ sup_pc = "start"
    /\ os_name \in {"posix", "nt"}
    /\ process = "none"
    /\ child = "none"
    /\ term_ignored \in BOOLEAN
    /\ return_code = -1
    /\ output_json \in {<< >>} \cup {<< a >> : a \in SupArtifacts}
    /\ wrote = FALSE
    /\ sup_result = None
    /\ signals = << >>
    /\ leaked = FALSE
    /\ OthersIdle("sup")

\* subprocess.Popen(cmd, preexec_fn=os.setsid): the tool starts, alone or
\* with a child process in its group.
SupPopen ==
    /\ sup_pc = "start"
    /\ process' = "running"
    /\ child' \in {"none", "running"}
    /\ sup_pc' = "waiting"
    /\ UNCHANGED << os_name, term_ignored, return_code, output_json, wrote,
                    sup_result, signals, leaked, sup_others >>

\* Popen raises (the command cannot be started): except Exception with
\* process still None.
SupPopenFails ==
    /\ sup_pc = "start"
    /\ sup_result' = "error"
    /\ sup_pc' = "returned"
    /\ UNCHANGED << os_name, process, child, term_ignored, return_code,
                    output_json, wrote, signals, leaked, sup_others >>

\* The tool writes its result artifact (-o output_json), replacing any file
\* already at that path.
ToolWrites(a) ==
    /\ sup_pc = "waiting"
    /\ process = "running"
    /\ ~ wrote
    /\ output_json' = << a >>
    /\ wrote' = TRUE
    /\ UNCHANGED << sup_pc, os_name, process, child, term_ignored, return_code,
                    sup_result, signals, leaked, sup_others >>

\* The tool exits by itself with code rc, its children having exited.
ToolExits(rc) ==
    /\ sup_pc = "waiting"
    /\ process = "running"
    /\ process' = "exited"
    /\ child' = IF child = "running" THEN "dead" ELSE child
    /\ return_code' = rc
    /\ UNCHANGED << sup_pc, os_name, term_ignored, output_json, wrote,
                    sup_result, signals, leaked, sup_others >>

\* process.wait returned: classify the artifact and report.
SupExited ==
    /\ sup_pc = "waiting"
    /\ process = "exited"
    /\ sup_result' = RunBatchStatus(check_api_errors(output_json)[1], return_code)
    /\ sup_pc' = "returned"
    /\ UNCHANGED << os_name, process, child, term_ignored, return_code,
                    output_json, wrote, signals, leaked, sup_others >>

\* subprocess.TimeoutExpired: graceful termination, then time.sleep(2).
SupTimeout ==
    /\ sup_pc = "waiting"
    /\ process = "running"
    /\ GracefulSignal
    /\ sup_pc' = "grace"
    /\ UNCHANGED << os_name, term_ignored, return_code, output_json, wrote,
                    sup_result, leaked, sup_others >>

\* After the grace period: forced kill, return status "timeout".
SupForceKill ==
    /\ sup_pc = "grace"
    /\ ForcedSignal
    /\ sup_result' = "timeout"
    /\ sup_pc' = "returned"
    /\ UNCHANGED << os_name, term_ignored, return_code, output_json, wrote,
                    leaked, sup_others >>

\* except Exception: if process and process.poll() is None: process.kill()
OnException ==
    /\ KillProcess(FALSE)
    /\ signals' = IF process = "running"
                  THEN Append(signals, << "kill", "process" >>) ELSE signals

\* An unexpected exception while the process is managed (process.wait or a
\* kill call failing with an OSError other than ProcessLookupError): the
\* outer handler runs and status "error" is returned.
SupUnexpected ==
    /\ sup_pc \in {"waiting", "grace"}
    /\ OnException
    /\ sup_result' = "error"
    /\ sup_pc' = "returned"
    /\ UNCHANGED << os_name, term_ignored, return_code, output_json, wrote,
                    leaked, sup_others >>

\* The caller invokes run_batch again: for the same batch number (the file
\* at output_json is still there) or for another one (no file yet).
SupNextCall ==
    /\ sup_pc = "returned"
    /\ sup_pc' = "start"
    /\ leaked' = (leaked \/ Alive)
    /\ process' = "none"
    /\ child' = "none"
    /\ return_code' = -1
    /\ wrote' = FALSE
    /\ sup_result' = None
    /\ signals' = << >>
    /\ output_json' \in {output_json, << >>}
    /\ UNCHANGED << os_name, term_ignored, sup_others >>

SupNext ==
    \/ SupPopen
    \/ SupPopenFails
    \/ \E a \in SupArtifacts : ToolWrites(a)
    \/ \E rc \in {0, 1} : ToolExits(rc)
    \/ SupExited
    \/ SupTimeout
    \/ SupForceKill
    \/ SupUnexpected
    \/ SupNextCall

SupSpec == SupInit /\ [][SupNext]_vars

\* ----------------------------------------------------------------------
\* Claims about the Supervisor
\* ----------------------------------------------------------------------

SupReturned == sup_pc = "returned"

\* C12: when the process has not exited by the timeout, the Supervisor
\* sends a graceful termination to the whole process group, then a forced
\* kill to the whole group, returns status timeout, and no process of the
\* spawned group is alive after the call returns.
C12_TimeoutKillsGroup ==
    (SupReturned /\ sup_result = "timeout") =>
        /\ signals = << << "terminate", "group" >>, << "kill", "group" >> >>
        /\ ~ Alive

\* A timeout on os.name = 'nt' returned while a child of the tool runs on.
C12_WitnessChildSurvives ==
    /\ SupReturned /\ sup_result = "timeout"
    /\ os_name = "nt" /\ child = "running"

\* C13: whenever a Supervisor call returns, with any status, no process it
\* started is still running; so a new subprocess never runs next to one of
\* an earlier call.
C13_NoLeak ==
    /\ SupReturned => ~ Alive
    /\ ~ leaked

\* A call returned status error on POSIX with a child of the tool alive.
C13_WitnessErrorLeak ==
    /\ SupReturned /\ sup_result = "error"
    /\ os_name = "posix" /\ child = "running"

\* A new tool process runs while a process of an earlier call still runs.
C13_WitnessTwoAlive == leaked /\ process = "running"

\* C14: if the tool exits without having written its result artifact, the
\* Supervisor reports status error; it never reports success for an
\* attempt with no artifact.
C14_NoArtifactIsError ==
    /\ (SupReturned /\ process = "exited" /\ ~ wrote) => sup_result = "error"
    /\ (SupReturned /\ output_json = << >>) => sup_result # "success"

\* The tool exited with code 0, no artifact exists, status success.
C14_WitnessSuccessWithoutArtifact ==
    /\ SupReturned /\ process = "exited" /\ return_code = 0
    /\ output_json = << >> /\ sup_result = "success"

\* ======================================================================
\* The Splitter: split_into_batches as main() calls it
\* ======================================================================

MaxTests == 4
MaxBatchSize == 3

\* The test cases a file may hold.
TestCases == {"t1", "t2", "t3"}

\* list(range(0, n, step)) for n >= 0 and step # 0: 0, step, 2*step, ...
\* below n; empty for a negative step.
Range0(n, step) ==
    IF step > 0
    THEN [k \in 1..((n + step - 1) \div step) |-> (k - 1) * step]
    ELSE << >>

\* s[lo:hi] for 0 <= lo <= hi: the slice is cut at the end of the list.
Slice(s, lo, hi) ==
    SubSeq(s, lo + 1, IF hi < Len(s) THEN hi ELSE Len(s))

\* Faulty variant: only the full batches, the remainder is dropped.
split_into_batches_DropsTail(ts, size) ==
    [k \in 1..(Len(ts) \div size) |-> Slice(ts, (k - 1) * size, k * size)]

\* for i in range(0, len(tests), batch_size): batches.append(tests[i:i+batch_size])
split_into_batches(ts, size) ==
    LET starts == Range0(Len(ts), size)
    IN  [k \in DOMAIN starts |-> Slice(ts, starts[k], starts[k] + size)]

SplInit ==
    /\ spl_pc = "start"
    /\ tests \in SeqsUpTo(TestCases, MaxTests)
    /\ batch_size \in (-1)..MaxBatchSize
    /\ batches = << >>
    /\ reports_dir \in BOOLEAN
    /\ spl_exit = -1
    /\ OthersIdle("spl")

\* main() line 348 or 367: range() raises ValueError for a step of zero,
\* which nothing catches; otherwise the list of batches is built.
Split ==
    /\ spl_pc = "start"
    /\ IF batch_size = 0
       THEN /\ spl_pc' = "crash"
            /\ spl_exit' = 1
            /\ UNCHANGED batches
       ELSE /\ batches' = split_into_batches(tests, batch_size)
            /\ spl_pc' = "split"
            /\ UNCHANGED spl_exit
    /\ UNCHANGED << tests, batch_size, reports_dir, spl_others >>

\* main() goes on after the split: with batches it enters the loop that
\* supervises them; with none the loop body never runs, the summary file is
\* written (open fails where reports/batches does not exist), nothing is
\* merged and main returns.
SplProceed ==
    /\ spl_pc = "split"
    /\ IF Len(batches) > 0
       THEN /\ spl_pc' = "loop"
            /\ UNCHANGED spl_exit
       ELSE IF reports_dir
       THEN /\ spl_pc' = "done"
            /\ spl_exit' = 0
       ELSE /\ spl_pc' = "crash"
            /\ spl_exit' = 1
    /\ UNCHANGED << tests, batch_size, batches, reports_dir, spl_others >>

SplNext == Split \/ SplProceed

SplSpec == SplInit /\ [][SplNext]_vars

\* ----------------------------------------------------------------------
\* Claims about the Splitter
\* ----------------------------------------------------------------------

RECURSIVE Concat(_)
Concat(ss) == IF ss = << >> THEN << >> ELSE Head(ss) \o Concat(Tail(ss))

CeilDiv(n, b) == (n + b - 1) \div b

HasSplit == spl_pc \in {"split", "loop", "done"}

\* C16: for every test sequence and batch size b > 0 the batches are
\* contiguous and non-overlapping, their concatenation in order is the test
\* sequence, every batch but possibly the last has exactly b elements, no
\* batch is empty, and there are ceil(|T|/b) batches.
C16_SplitContract ==
    (HasSplit /\ batch_size > 0) =>
        /\ Concat(batches) = tests
        /\ \A k \in DOMAIN batches :
              /\ batches[k] = SubSeq(tests, (k - 1) * batch_size + 1,
                                     (k - 1) * batch_size + Len(batches[k]))
              /\ k < Len(batches) => Len(batches[k]) = batch_size
              /\ Len(batches[k]) >= 1
              /\ Len(batches[k]) <= batch_size
        /\ Len(batches) = CeilDiv(Len(tests), batch_size)

\* Three tests in batches of two: a full batch and a shorter last one.
C16_Witness ==
    /\ HasSplit /\ batch_size = 2 /\ Len(tests) = 3
    /\ Len(batches) = 2 /\ Len(batches[1]) = 2 /\ Len(batches[2]) = 1

\* C17: a batch size of zero or below is rejected: the run fails before any
\* batch is supervised and never proceeds, or completes with exit 0, with
\* an empty batch list.
C17_NonPositiveRejected ==
    batch_size <= 0 => (~ HasSplit /\ spl_exit # 0)

\* A run with batch size -1 over a non-empty test file completed with exit 0.
C17_WitnessExitZero ==
    /\ batch_size = -1 /\ Len(tests) > 0
    /\ batches = << >> /\ spl_pc = "done" /\ spl_exit = 0

\* ======================================================================
\* The Materializer: create_batch_config and the config files
\* ======================================================================

MaxCalls == 2
MaxProviders == 2

\* The base config given with --config, and the directory it is in.
base_config == << "promptfooconfig.yaml" >>
config_dir == "/abs/config_dir"

\* Faulty variant: the materialized config written over the base config.
config_file_IsBase(batch_num) == base_config

\* os.path.join(output_dir, f"_temp_config_batch_{batch_num:02d}.yaml")
config_file(batch_num) == << "reports/batches/_temp_config_batch_", batch_num >>

\* os.path.abspath(batch_file) of the batch's test file.
batch_file_abs(batch_num) == << "/abs/cwd/_generated/batch_", batch_num, "_temp.yaml" >>

ConfigPaths == {base_config} \cup {config_file(n) : n \in 1..MaxBatches}

\* Prompt entries, as path fragments.
Prompts ==
    { << "file://", "prompts/", "p.txt" >>,
      << "file://", "tests/prompts/", "p.txt" >>,
      << "file://", "/abs/elsewhere/", "p.txt" >> }

\* Lines 87-92: file://prompts/ and file://tests/prompts/ are anchored to
\* the base config's directory, any other prompt is kept.
RewritePrompt(prompt) ==
    IF prompt[1] = "file://" /\ prompt[2] = "prompts/"
    THEN << "file://", config_dir, "/prompts/", prompt[3] >>
    ELSE IF prompt[1] = "file://" /\ prompt[2] = "tests/prompts/"
    THEN << "file://", config_dir, "/tests/prompts/", prompt[3] >>
    ELSE prompt

\* The config create_batch_config dumps, from the config it loaded.
MaterializedConfig(config, batch_num, fallback_model) ==
    [ prompts   |-> [k \in DOMAIN config.prompts |-> RewritePrompt(config.prompts[k])],
      providers |-> [k \in DOMAIN config.providers |->
                        RewriteProvider(config.providers[k], fallback_model)],
      tests     |-> << "file://", batch_file_abs(batch_num) >> ]

ProviderEntries ==
    { ProviderEntry(form, id) :
        form \in {"dict", "str"},
        id \in {"google:gemini-2.5-flash", "openrouter:meta-llama/llama-3"} }

\* Base configs: inline tests, one prompt, one or more providers.
Templates ==
    { [prompts |-> << p >>, providers |-> ps, tests |-> << "inline" >>] :
        p \in Prompts,
        ps \in SeqsUpTo(ProviderEntries, MaxProviders) \ {<< >>} }

MatInit ==
    /\ mat_pc = "ready"
    /\ template \in Templates
    /\ files = [path \in ConfigPaths |->
                  IF path = base_config THEN << template >> ELSE << >>]
    /\ made = << >>
    /\ OthersIdle("mat")

\* One call create_batch_config(base_config, batch_file, batch_num,
\* fallback_model=model): load the base config, derive, dump.
Materialize(batch_num, model) ==
    /\ mat_pc = "ready"
    /\ Len(made) < MaxCalls
    /\ LET config == MaterializedConfig(files[base_config][1], batch_num, model)
       IN  /\ files' = [files EXCEPT ![config_file(batch_num)] = << config >>]
           /\ made' = Append(made, [batch_num |-> batch_num, model |-> model,
                                    config |-> config])
    /\ UNCHANGED << mat_pc, template, mat_others >>

MatNext ==
    \E batch_num \in 1..MaxBatches,
       model \in {None} \cup {FALLBACK_MODELS[k] : k \in DOMAIN FALLBACK_MODELS} :
        Materialize(batch_num, model)

MatSpec == MatInit /\ [][MatNext]_vars

\* ----------------------------------------------------------------------
\* Claims about the Materializer
\* ----------------------------------------------------------------------

\* C18: materializing never modifies the base config: every call, also a
\* repeated one for the same batch with another model, derives its output
\* from the unchanged template, so two configs of the same batch differ
\* only in the substituted model.
C18_TemplateUnchanged ==
    /\ mat_pc = "ready" => files[base_config] = << template >>
    /\ \A k \in DOMAIN made :
          made[k].config =
              MaterializedConfig(template, made[k].batch_num, made[k].model)
    /\ \A j, k \in DOMAIN made :
          made[j].batch_num = made[k].batch_num =>
              /\ made[j].config.prompts = made[k].config.prompts
              /\ made[j].config.tests = made[k].config.tests
              /\ \A n \in DOMAIN template.providers :
                    \/ made[j].config.providers[n] = made[k].config.providers[n]
                    \/ /\ made[j].config.providers[n].id \in {made[j].model, template.providers[n].id}
                       /\ made[k].config.providers[n].id \in {made[k].model, template.providers[n].id}
                       /\ made[j].model # made[k].model

\* The same batch materialized for the primary attempt and then for a
\* fallback model, with different provider lists.
C18_Witness ==
    /\ Len(made) = 2
    /\ made[1].batch_num = made[2].batch_num
    /\ made[1].model = None /\ made[2].model = FALLBACK_MODELS[1]
    /\ made[1].config.providers # made[2].config.providers
    /\ files[base_config] = << template >>

\* C19: with a model supplied every provider entry of the current model
\* family becomes that model and every entry of another family is left
\* untouched; with no model supplied no entry is changed.
C19_ProviderRewrite ==
    \A k \in DOMAIN made : \A n \in DOMAIN template.providers :
        LET before == template.providers[n]
            after == made[k].config.providers[n]
        IN  IF made[k].model # None /\ IsGeminiFamily(before.id)
            THEN after.id = made[k].model
            ELSE after = before

\* The same for the entries written as mappings with an id.
C19_DictEntries ==
    \A k \in DOMAIN made : \A n \in DOMAIN template.providers :
        LET before == template.providers[n]
            after == made[k].config.providers[n]
        IN  before.form = "dict" =>
                IF made[k].model # None /\ IsGeminiFamily(before.id)
                THEN after.id = made[k].model
                ELSE after = before

\* A bare 'google:gemini-2.5-flash' entry kept as it was under a fallback model.
C19_WitnessStringEntry ==
    \E k \in DOMAIN made : \E n \in DOMAIN template.providers :
        /\ made[k].model = FALLBACK_MODELS[1]
        /\ template.providers[n] = ProviderEntry("str", "google:gemini-2.5-flash")
        /\ made[k].config.providers[n] = template.providers[n]

\* ======================================================================
\* The Merger: merge_results over a list of result artifacts
\* ======================================================================

MaxArtifacts == 2
MaxResults == 2

\* A per-test result record: the prompt variant it ran, how it ended
\* ("pass": success; "fail": no success, no error; "error": an error
\* string), its score, its latency and its named scores. Errored records
\* carry no named score.
PromptIds == {"p1", "p2"}
Outcomes == {"pass", "fail", "error"}
ResultRecord(p, o) ==
    [ promptId    |-> p,
      outcome     |-> o,
      score       |-> IF o = "pass" THEN 1 ELSE 0,
      latencyMs   |-> IF p = "p1" THEN 1 ELSE 2,
      namedScores |-> IF o = "error" THEN << >>
                      ELSE [n \in {"accuracy"} |-> IF o = "pass" THEN 1 ELSE 0] ]
ResultRecords == {ResultRecord(p, o) : p \in PromptIds, o \in Outcomes}

\* Number of records of a sequence with the given outcome.
RECURSIVE CountOutcome(_, _)
CountOutcome(records, o) ==
    IF records = << >> THEN 0
    ELSE (IF Head(records).outcome = o THEN 1 ELSE 0) + CountOutcome(Tail(records), o)

\* The results of the artifacts, one after the other in list order.
RECURSIVE AllResults(_)
AllResults(fs) ==
    IF fs = << >> THEN << >> ELSE Head(fs).results \o AllResults(Tail(fs))

\* dict.get(key, default) and dict[key] = value on a mapping.
Get(d, key, default) == IF key \in DOMAIN d THEN d[key] ELSE default
Put(d, key, value) ==
    [k \in DOMAIN d \cup {key} |-> IF k = key THEN value ELSE d[k]]

\* Lines 80-90: the metrics a prompt starts with.
ZeroMetrics ==
    [ score |-> 0, testPassCount |-> 0, testFailCount |-> 0,
      testErrorCount |-> 0, assertPassCount |-> 0, assertFailCount |-> 0,
      totalLatencyMs |-> 0, namedScores |-> << >>, namedScoresCount |-> << >> ]

\* Lines 99-103: the named scores of one record added to the sums (count =
\* FALSE) or to the observation counts (count = TRUE).
AddNamed(acc, named, count) ==
    [n \in DOMAIN acc \cup DOMAIN named |->
        Get(acc, n, 0) + (IF n \in DOMAIN named
                          THEN (IF count THEN 1 ELSE named[n]) ELSE 0)]

\* Faulty variant: the latency of the last record instead of the sum.
AddRecord_LastLatency(metrics, r) ==
    [ metrics EXCEPT
        !.score = @ + r.score,
        !.testPassCount = @ + (IF r.outcome = "pass" THEN 1 ELSE 0),
        !.testFailCount = @ + (IF r.outcome = "fail" THEN 1 ELSE 0),
        !.testErrorCount = @ + (IF r.outcome = "error" THEN 1 ELSE 0),
        !.totalLatencyMs = r.latencyMs,
        !.namedScores = AddNamed(@, r.namedScores, FALSE),
        !.namedScoresCount = AddNamed(@, r.namedScores, TRUE) ]

\* Lines 92-103: one record added to the metrics of its prompt.
AddRecord(metrics, r) ==
    [ metrics EXCEPT
        !.score = @ + r.score,
        !.testPassCount = @ + (IF r.outcome = "pass" THEN 1 ELSE 0),
        !.testFailCount = @ + (IF r.outcome = "fail" THEN 1 ELSE 0),
        !.testErrorCount = @ + (IF r.outcome = "error" THEN 1 ELSE 0),
        !.totalLatencyMs = @ + r.latencyMs,
        !.namedScores = AddNamed(@, r.namedScores, FALSE),
        !.namedScoresCount = AddNamed(@, r.namedScores, TRUE) ]

\* Lines 74-103: prompt_metrics, by one pass over the records.
RECURSIVE PromptMetrics(_, _)
PromptMetrics(prompt_metrics, records) ==
    IF records = << >> THEN prompt_metrics
    ELSE LET r == Head(records)
             metrics == Get(prompt_metrics, r.promptId, ZeroMetrics)
         IN  PromptMetrics(Put(prompt_metrics, r.promptId, AddRecord(metrics, r)),
                           Tail(records))

\* The prompt identifiers of a list of records, p1 before p2.
PromptsOf(records) ==
    LET ids == {records[k].promptId : k \in DOMAIN records}
    IN  IF ids = PromptIds THEN << "p1", "p2" >>
        ELSE IF ids = {"p1"} THEN << "p1" >>
        ELSE IF ids = {"p2"} THEN << "p2" >>
        ELSE << >>

\* The token-usage blocks an artifact may carry: sub-counters may be
\* missing, and there are sub-counters beside the four merge_results names.
TokenUsages ==
    { [k \in {"total", "prompt", "completion"} |-> IF k = "total" THEN 2 ELSE 1],
      [k \in {"total", "cached", "numRequests"} |-> IF k = "total" THEN 3 ELSE 1] }

\* A result artifact as the tool writes it: the records of the batch, the
\* stats block counting them, and one prompts entry, with its metrics, per
\* prompt variant the batch ran.
ResultArtifact(evalId, records, tokenUsage) ==
    [ evalId  |-> << evalId >>,
      results |-> records,
      stats   |-> [ successes  |-> CountOutcome(records, "pass"),
                    failures   |-> CountOutcome(records, "fail"),
                    errors     |-> CountOutcome(records, "error"),
                    tokenUsage |-> tokenUsage ],
      prompts |-> LET ids == PromptsOf(records)
                      prompt_metrics == PromptMetrics(<< >>, records)
                  IN  [k \in DOMAIN ids |->
                          [id |-> ids[k], metrics |-> prompt_metrics[ids[k]]]] ]

\* The artifacts with at most n records.
ArtifactsUpTo(n) ==
    { ResultArtifact("eval", records, tokenUsage) :
        records \in SeqsUpTo(ResultRecords, n), tokenUsage \in TokenUsages }

ResultArtifacts == ArtifactsUpTo(MaxResults)

\* Lines 62-66: the four named sub-counters of one artifact added to the
\* merged token usage.
RECURSIVE MergeTokenUsage(_, _, _)
MergeTokenUsage(usage, other, keys) ==
    IF keys = << >> THEN usage
    ELSE LET key == Head(keys)
         IN  MergeTokenUsage(
                 IF key \in DOMAIN other
                 THEN Put(usage, key, Get(usage, key, 0) + other[key])
                 ELSE usage,
                 other, Tail(keys))

\* Lines 48-66: the loop over batch_files[1:], started with the base's
\* records, counters and token usage.
RECURSIVE MergeLoop(_, _)
MergeLoop(acc, rest) ==
    IF rest = << >> THEN acc
    ELSE MergeLoop(
            [ results    |-> acc.results \o Head(rest).results,
              successes  |-> acc.successes + Head(rest).stats.successes,
              failures   |-> acc.failures + Head(rest).stats.failures,
              errors     |-> acc.errors + Head(rest).stats.errors,
              tokenUsage |-> MergeTokenUsage(acc.tokenUsage,
                                 Head(rest).stats.tokenUsage,
                                 << "prompt", "completion", "cached", "total" >>) ],
            Tail(rest))

\* Faulty variant: the recomputed score added to the score the entry had.
UpdatePrompts_Accumulates(prompts, prompt_metrics) ==
    [k \in DOMAIN prompts |->
        IF prompts[k].id \in DOMAIN prompt_metrics
        THEN [prompts[k] EXCEPT
                !.metrics = [prompt_metrics[prompts[k].id] EXCEPT
                                !.score = @ + prompts[k].metrics.score]]
        ELSE prompts[k]]

\* Lines 105-109: the base's prompts entries, those with merged records
\* given the recomputed metrics.
UpdatePrompts(prompts, prompt_metrics) ==
    [k \in DOMAIN prompts |->
        IF prompts[k].id \in DOMAIN prompt_metrics
        THEN [prompts[k] EXCEPT !.metrics = prompt_metrics[prompts[k].id]]
        ELSE prompts[k]]

\* Faulty variant: the base's stats block is left as loaded.
merge_results_KeepsBaseStats(fs) ==
    [ evalId  |-> << "merged-" >> \o fs[1].evalId,
      results |-> AllResults(fs),
      stats   |-> fs[1].stats,
      prompts |-> UpdatePrompts(fs[1].prompts, PromptMetrics(<< >>, AllResults(fs))) ]

\* merge_results for a non-empty list: the first artifact is the base, the
\* others are folded into it, the totals are written to its stats block,
\* the per-prompt metrics are recomputed from the merged records.
merge_results(fs) ==
    LET base == fs[1]
        acc  == MergeLoop([ results    |-> base.results,
                            successes  |-> base.stats.successes,
                            failures   |-> base.stats.failures,
                            errors     |-> base.stats.errors,
                            tokenUsage |-> base.stats.tokenUsage ], Tail(fs))
    IN  [ evalId  |-> << "merged-" >> \o base.evalId,
          results |-> acc.results,
          stats   |-> [ successes  |-> acc.successes,
                        failures   |-> acc.failures,
                        errors     |-> acc.errors,
                        tokenUsage |-> acc.tokenUsage ],
          prompts |-> UpdatePrompts(base.prompts,
                                    PromptMetrics(<< >>, acc.results)) ]

MrgInit ==
    /\ mrg_pc = "start"
    /\ batch_files \in SeqsUpTo(ResultArtifacts, MaxArtifacts)
    /\ merged_file = << >>
    /\ mrg_ok = None
    /\ remerged = << >>
    /\ OthersIdle("mrg")

\* One call merge_results(batch_files, output_file): False for an empty
\* list, else the merged artifact is written and True returned.
Merge ==
    /\ mrg_pc = "start"
    /\ IF batch_files = << >>
       THEN /\ mrg_ok' = FALSE
            /\ UNCHANGED merged_file
       ELSE /\ merged_file' = << merge_results(batch_files) >>
            /\ mrg_ok' = TRUE
    /\ mrg_pc' = "done"
    /\ UNCHANGED << batch_files, remerged, mrg_others >>

MrgNext == Merge

MrgSpec == MrgInit /\ [][MrgNext]_vars

\* ----------------------------------------------------------------------
\* Claims about the Merger
\* ----------------------------------------------------------------------

RECURSIVE SumSeq(_)
SumSeq(ns) == IF ns = << >> THEN 0 ELSE Head(ns) + SumSeq(Tail(ns))

SumSuccesses(fs) == SumSeq([k \in DOMAIN fs |-> fs[k].stats.successes])
SumFailures(fs) == SumSeq([k \in DOMAIN fs |-> fs[k].stats.failures])
SumErrors(fs) == SumSeq([k \in DOMAIN fs |-> fs[k].stats.errors])
SumResults(fs) == SumSeq([k \in DOMAIN fs |-> Len(fs[k].results)])

\* The successes, failures and errors of an artifact's stats block.
CountersOf(a) == << a.stats.successes, a.stats.failures, a.stats.errors >>

\* C20: for any ordered list of artifacts the merged record sequence is the
\* concatenation of the artifacts' record sequences in list order, the
\* record count is the sum of the counts, and the merged successes,
\* failures and errors are the sums over all artifacts.
C20_MergeSums ==
    (mrg_pc = "done" /\ batch_files # << >>) =>
        /\ mrg_ok = TRUE
        /\ merged_file # << >>
        /\ merged_file[1].results = AllResults(batch_files)
        /\ Len(merged_file[1].results) = SumResults(batch_files)
        /\ merged_file[1].stats.successes = SumSuccesses(batch_files)
        /\ merged_file[1].stats.failures = SumFailures(batch_files)
        /\ merged_file[1].stats.errors = SumErrors(batch_files)

\* Stats {2,0,0} and {1,1,0} merged to {3,1,0} with 4 records.
C20_Witness ==
    /\ mrg_pc = "done" /\ Len(batch_files) = 2
    /\ CountersOf(batch_files[1]) = << 2, 0, 0 >>
    /\ CountersOf(batch_files[2]) = << 1, 1, 0 >>
    /\ CountersOf(merged_file[1]) = << 3, 1, 0 >>
    /\ Len(merged_file[1].results) = 4


\* The merged records, once a merge has written its output.
MergedResults == merged_file[1].results

\* Sum of value(r) over the records r of prompt id, given as the sequence of
\* the values with 0 for the records of other prompts.
ScoreSum(rs, id) ==
    SumSeq([k \in DOMAIN rs |-> IF rs[k].promptId = id THEN rs[k].score ELSE 0])
LatencySum(rs, id) ==
    SumSeq([k \in DOMAIN rs |-> IF rs[k].promptId = id THEN rs[k].latencyMs ELSE 0])
OutcomeCount(rs, id, o) ==
    Cardinality({k \in DOMAIN rs : rs[k].promptId = id /\ rs[k].outcome = o})
NamesOf(rs, id) ==
    UNION {DOMAIN rs[k].namedScores : k \in {j \in DOMAIN rs : rs[j].promptId = id}}
NamedSum(rs, id, n) ==
    SumSeq([k \in DOMAIN rs |->
              IF rs[k].promptId = id /\ n \in DOMAIN rs[k].namedScores
              THEN rs[k].namedScores[n] ELSE 0])
NamedCount(rs, id, n) ==
    Cardinality({k \in DOMAIN rs :
                    rs[k].promptId = id /\ n \in DOMAIN rs[k].namedScores})

\* The metrics m are the sums and counts over the records of rs with id.
AggregatesOf(m, rs, id) ==
    /\ m.score = ScoreSum(rs, id)
    /\ m.testPassCount = OutcomeCount(rs, id, "pass")
    /\ m.testFailCount = OutcomeCount(rs, id, "fail")
    /\ m.testErrorCount = OutcomeCount(rs, id, "error")
    /\ m.totalLatencyMs = LatencySum(rs, id)
    /\ DOMAIN m.namedScores = NamesOf(rs, id)
    /\ DOMAIN m.namedScoresCount = NamesOf(rs, id)
    /\ \A n \in NamesOf(rs, id) :
          /\ m.namedScores[n] = NamedSum(rs, id, n)
          /\ m.namedScoresCount[n] = NamedCount(rs, id, n)

\* C24: after merging, the recomputed aggregates of every prompt identifier
\* are, over exactly the merged records with that identifier, the sum of
\* scores, the counts of passed, failed and errored records, the sum of
\* latencies and, per named metric, the sum of its values and the number of
\* records reporting it; the prompts block carries them.
C24_PromptAggregates ==
    (mrg_pc = "done" /\ batch_files # << >>) =>
        LET prompt_metrics == PromptMetrics(<< >>, MergedResults)
        IN  /\ DOMAIN prompt_metrics =
                  {MergedResults[k].promptId : k \in DOMAIN MergedResults}
            /\ \A id \in DOMAIN prompt_metrics :
                  AggregatesOf(prompt_metrics[id], MergedResults, id)
            /\ \A k \in DOMAIN merged_file[1].prompts :
                  AggregatesOf(merged_file[1].prompts[k].metrics, MergedResults,
                               merged_file[1].prompts[k].id)

\* Prompt p1 with a passed record in the base and an errored one in the
\* second artifact: one named-score observation over two records.
C24_Witness ==
    /\ mrg_pc = "done" /\ Len(batch_files) = 2
    /\ \E k \in DOMAIN merged_file[1].prompts :
          LET e == merged_file[1].prompts[k]
          IN  /\ e.id = "p1"
              /\ e.metrics.testPassCount = 1 /\ e.metrics.testErrorCount = 1
              /\ e.metrics.totalLatencyMs = 2
              /\ e.metrics.namedScoresCount["accuracy"] = 1
              /\ OutcomeCount(batch_files[2].results, "p1", "error") = 1


\* ----------------------------------------------------------------------
\* Merging in two steps: (A, B), then the result with C
\* ----------------------------------------------------------------------

MaxStepResults == 1

AssocInit ==
    /\ mrg_pc = "start"
    /\ batch_files \in [1..3 -> ArtifactsUpTo(MaxStepResults)]
    /\ merged_file = << >>
    /\ mrg_ok = None
    /\ remerged = << >>
    /\ OthersIdle("mrg")

\* merge_results over the first two artifacts.
MergePair ==
    /\ mrg_pc = "start"
    /\ merged_file' = << merge_results(SubSeq(batch_files, 1, 2)) >>
    /\ mrg_ok' = TRUE
    /\ mrg_pc' = "pair"
    /\ UNCHANGED << batch_files, remerged, mrg_others >>

\* merge_results over the file just written and the third artifact.
MergeThird ==
    /\ mrg_pc = "pair"
    /\ remerged' = << merge_results(<< merged_file[1], batch_files[3] >>) >>
    /\ mrg_pc' = "done"
    /\ UNCHANGED << batch_files, merged_file, mrg_ok, mrg_others >>

AssocNext == MergePair \/ MergeThird

AssocSpec == AssocInit /\ [][AssocNext]_vars

\* The totals of a merged artifact: everything but its identifier.
Totals(a) == << a.stats, a.results, a.prompts >>

\* C21: merging A and B and then the result with C gives the same stats
\* counters, token counters, record sequence and per-prompt aggregates as
\* merging A, B, C in one pass.
C21_TwoStepsAsOnePass ==
    (mrg_pc = "done" /\ Len(batch_files) = 3 /\ remerged # << >>) =>
        Totals(remerged[1]) = Totals(merge_results(batch_files))

\* Three artifacts with a record each, merged in two steps to three records.
C21_Witness ==
    /\ mrg_pc = "done" /\ remerged # << >>
    /\ \A k \in 1..3 : Len(batch_files[k].results) = 1
    /\ batch_files[1].stats.tokenUsage # batch_files[2].stats.tokenUsage
    /\ Len(remerged[1].results) = 3
    /\ Len(merged_file[1].results) = 2


\* ======================================================================
\* The Merger's command: main() of merge_batch_results.py
\* ======================================================================

MaxFileNum == 100
MaxFiles == 2

\* Characters, by their code: the digits and the underscore.
Digit(d) == 48 + d
Underscore == 95

\* str(n) for n >= 0.
RECURSIVE Digits(_)
Digits(n) == IF n < 10 THEN << Digit(n) >> ELSE Append(Digits(n \div 10), Digit(n % 10))

\* f"{batch_num:02d}": at least two digits, zero-padded.
Format02d(n) == IF n < 10 THEN << Digit(0), Digit(n) >> ELSE Digits(n)

\* int(s) for a string of digits.
RECURSIVE ToInt(_)
ToInt(s) ==
    IF s = << >> THEN 0
    ELSE ToInt(SubSeq(s, 1, Len(s) - 1)) * 10 + (s[Len(s)] - Digit(0))

\* --batch-dir and --pattern, at their defaults.
batch_dir == "reports/batches"
pattern == "batch_*_results.json"

\* run_batch's output_json for a batch number: batch_NN_results.json in
\* the batch directory; stem is the part of the name the pattern's * matches.
output_json_path(batch_num) ==
    [dir |-> batch_dir, file |-> pattern, stem |-> Format02d(batch_num)]

\* Faulty variant: the merged file written among the batch artifacts.
output_file_InBatchDir ==
    [dir |-> batch_dir, file |-> pattern, stem |-> << Digit(0), Digit(0) >>]

\* --output at its default, reports/merged_results.json.
output_file == [dir |-> "reports", file |-> "merged_results.json", stem |-> << >>]

\* glob.glob(os.path.join(batch_dir, pattern)): the existing paths of the
\* batch directory whose name matches the pattern.
Glob(d) == {path \in DOMAIN d : path.dir = batch_dir /\ path.file = pattern}

\* String order on character sequences.
RECURSIVE StrLess(_, _)
StrLess(a, b) ==
    IF b = << >> THEN FALSE
    ELSE IF a = << >> THEN TRUE
    ELSE IF Head(a) # Head(b) THEN Head(a) < Head(b)
    ELSE StrLess(Tail(a), Tail(b))

\* Two paths of Glob differ from the stem on; the stem is followed by the
\* underscore of "_results.json".
PathLess(p, q) == StrLess(Append(p.stem, Underscore), Append(q.stem, Underscore))

\* sorted(paths): ascending string order.
RECURSIVE sorted(_)
sorted(paths) ==
    IF paths = {} THEN << >>
    ELSE LET first == CHOOSE p \in paths : \A q \in paths \ {p} : PathLess(p, q)
         IN  << first >> \o sorted(paths \ {first})

\* The artifact a batch left on disk.
DiskArtifact(batch_num) ==
    IF batch_num % 2 = 1
    THEN ResultArtifact("eval", << ResultRecord("p1", "pass"), ResultRecord("p2", "fail") >>,
                        [k \in {"total", "prompt", "completion"} |-> 1])
    ELSE ResultArtifact("eval", << ResultRecord("p1", "error") >>,
                        [k \in {"total", "cached"} |-> 1])

\* The sets of at most n batch numbers up to MaxFileNum.
RECURSIVE NumberSets(_)
NumberSets(n) ==
    IF n = 0 THEN {{}}
    ELSE LET smaller == NumberSets(n - 1)
         IN  smaller \cup {S \cup {b} : S \in smaller, b \in 1..MaxFileNum}

MmInit ==
    /\ mm_pc = "ready"
    /\ \E nums \in NumberSets(MaxFiles) :
          disk = [path \in {output_json_path(b) : b \in nums} |->
                    DiskArtifact(ToInt(path.stem))]
    /\ found = << >>
    /\ runs = << >>
    /\ OthersIdle("mm")

\* One run of the command: list the batch files in sorted order; with
\* none, return 1; else merge them and write the output file.
MergerMain ==
    /\ mm_pc = "ready"
    /\ Len(runs) < 2
    /\ LET batch_files_found == sorted(Glob(disk))
       IN  /\ found' = batch_files_found
           /\ IF batch_files_found = << >>
              THEN /\ runs' = Append(runs, << >>)
                   /\ UNCHANGED disk
              ELSE LET merged_data ==
                           merge_results([k \in DOMAIN batch_files_found |->
                                            disk[batch_files_found[k]]])
                   IN  /\ disk' = Put(disk, output_file, merged_data)
                       /\ runs' = Append(runs, << merged_data >>)
    /\ UNCHANGED << mm_pc, mm_others >>

MmNext == MergerMain

MmSpec == MmInit /\ [][MmNext]_vars

\* ----------------------------------------------------------------------
\* Claims about the Merger's command
\* ----------------------------------------------------------------------

\* The batch number in the name of a batch artifact.
BatchNumOf(path) == ToInt(path.stem)

\* The batch artifacts on disk: the files run_batch writes.
BatchArtifactsOnDisk ==
    {path \in DOMAIN disk :
        BatchNumOf(path) >= 1 /\ path = output_json_path(BatchNumOf(path))}

\* C22: running the Merger twice on the same set of artifacts gives the
\* same aggregate stats and per-prompt aggregates both times; the first
\* run neither changes its inputs nor adds its output to the set the second
\* run reads.
C22_SecondRunSame ==
    /\ Len(runs) = 2 =>
          /\ runs[1] = << >> <=> runs[2] = << >>
          /\ runs[1] # << >> =>
                /\ runs[1][1].stats = runs[2][1].stats
                /\ runs[1][1].prompts = runs[2][1].prompts
    /\ Len(runs) >= 1 =>
          /\ {found[k] : k \in DOMAIN found} = BatchArtifactsOnDisk
          /\ \A path \in BatchArtifactsOnDisk :
                disk[path] = DiskArtifact(BatchNumOf(path))

\* Two runs over two different artifacts, each writing the merged file.
C22_Witness ==
    /\ Len(runs) = 2 /\ Len(found) = 2
    /\ disk[found[1]] # disk[found[2]]
    /\ runs[2] # << >> /\ Len(runs[2][1].results) = 3
    /\ output_file \in DOMAIN disk

\* C23: the Merger folds the artifacts in ascending order of the batch
\* number in their file names, for any number of batches, so the base is
\* the artifact with the smallest batch number.
C23_BatchNumberOrder ==
    \A j, k \in DOMAIN found :
        j < k => BatchNumOf(found[j]) < BatchNumOf(found[k])

\* The same for batch numbers of at most two digits.
C23_UpToTwoDigits ==
    (\A k \in DOMAIN found : BatchNumOf(found[k]) < 100) => C23_BatchNumberOrder

\* Batch 100 folded before batch 10.
C23_WitnessHundredFirst ==
    /\ Len(found) = 2
    /\ BatchNumOf(found[1]) = 100 /\ BatchNumOf(found[2]) = 10


\* ----------------------------------------------------------------------
\* Claims about what a run leaves behind
\* ----------------------------------------------------------------------

Halted == pc = "exit" /\ exit_code = 1
Completed == pc = "exit" /\ exit_code = 0

\* C25: every halt path writes the partial summary before exiting, and the
\* summary holds the outcome of every batch processed so far in the run,
\* in order, the batch that triggered the halt included.
C25_PartialSummaryOnHalt ==
    Halted =>
        /\ partial_summary # << >>
        /\ partial_summary[1] = results
        /\ Len(partial_summary[1]) = i - start_idx + 1
        /\ \A k \in DOMAIN partial_summary[1] :
              partial_summary[1][k].batch_num = start_idx + k
        /\ Last(partial_summary[1]).batch_num = i + 1
        /\ Len(supervised) = Len(partial_summary[1])

\* A halt at the third batch of the run, with three outcomes saved, the
\* second one from a fallback model.
C25_Witness ==
    /\ Halted
    /\ partial_summary # << >>
    /\ Len(partial_summary[1]) = 3
    /\ partial_summary[1][1].status = "success"
    /\ partial_summary[1][2].status = "failed"
    /\ partial_summary[1][3].status = "rate_limited"


\* ======================================================================
\* A whole run of main(): loading the inputs, then the loop
\* ======================================================================

\* main() before it loads anything: the test collection makes
\* total_batches batches (none when it is empty), whether --tests is given
\* and which of the files exist.
MainInit ==
    /\ pc = "load"
    /\ total_batches \in 0..MaxBatches
    /\ CtlInputs(0, {<< "google:gemini-2.5-flash" >>}, {None})
    /\ tests_arg \in BOOLEAN
    /\ tests_exists \in BOOLEAN
    /\ tests_arg \/ ~ tests_exists
    /\ config_exists \in BOOLEAN
    /\ stray_batch_file = FALSE
    /\ SupIdle /\ ClsIdle /\ SplIdle /\ MatIdle /\ MrgIdle /\ MmIdle

\* Faulty variant: leaving with exit code 0.
InputErrorExit_Zero ==
    /\ pc' = "crash"
    /\ exit_code' = 0

\* The run ends on an input error: an exception nothing catches
\* (load_tests on a missing file), or sys.exit(1) at lines 360 and 364,
\* which raises UnboundLocalError because `import sys` at line 539 makes
\* sys a local of main(). The interpreter exits with status 1 either way.
InputErrorExit ==
    /\ pc' = "crash"
    /\ exit_code' = 1

\* Lines 339-369: with --tests the test file is loaded and split; without,
\* the tests inline in the base config are, and a config that cannot be
\* read or holds no test ends the run.
LoadInputs ==
    /\ pc = "load"
    /\ IF tests_arg
       THEN IF tests_exists
            THEN pc' = "loop" /\ UNCHANGED exit_code
            ELSE InputErrorExit
       ELSE IF config_exists /\ total_batches > 0
            THEN pc' = "loop" /\ UNCHANGED exit_code
            ELSE InputErrorExit
    /\ UNCHANGED << args, i, results, consecutive_api_errors, current_model,
                    result, fb_idx, attempts, errors_at_start, cooled,
                    partial_summary, full_summary, merged, supervised,
                    results_on_disk, resume_hint,
                    ld_vars, ld_others >>

\* Lines 401-402 with the base config missing (only possible with
\* --tests): create_batch_file writes the batch file, then
\* create_batch_config fails to open the config, which nothing catches.
ConfigMissingCrash ==
    /\ pc = "loop"
    /\ i < end_idx
    /\ ValidIndex(i, total_batches)
    /\ ~ config_exists
    /\ stray_batch_file' = TRUE
    /\ pc' = "crash"
    /\ exit_code' = 1
    /\ UNCHANGED << args, i, results, consecutive_api_errors, current_model,
                    result, fb_idx, attempts, errors_at_start, cooled,
                    partial_summary, full_summary, merged, supervised,
                    results_on_disk, resume_hint,
                    tests_arg, tests_exists, config_exists, ld_others >>

\* Lines 401-405 with the base config in place: the primary run.
MainRunPrimary(st) == config_exists /\ RunPrimary(st)

MainNext ==
    \/ LoadInputs
    \/ ConfigMissingCrash
    \/ \E st \in Statuses : MainRunPrimary(st)
    \/ \E st \in Statuses : TryFallback(st)
    \/ Cooldown
    \/ Finish

MainSpec == MainInit /\ [][MainNext]_vars

\* The run is over.
Terminated == pc \in {"exit", "crash"}

\* An input the run needs is missing.
MissingInput == (tests_arg /\ ~ tests_exists) \/ ~ config_exists

\* The batches of the range --start..--end.
RangeSize == IF end_idx > start_idx THEN end_idx - start_idx ELSE 0

C26_WitnessMissingConfig ==
    /\ Terminated /\ exit_code = 1
    /\ ~ tests_arg /\ ~ config_exists /\ results = << >>

\* A circuit-breaker halt ended with code 1.
C26_WitnessHalt ==
    /\ Terminated /\ exit_code = 1
    /\ consecutive_api_errors = MAX_CONSECUTIVE_FAILURES
    /\ partial_summary = << results >>


\* ---------------------------------------------------------------------
\* Input errors (main, lines 339-369 and 400-402)
\* ---------------------------------------------------------------------

\* The test collection is empty: no batch was split off it.
EmptyTests == total_batches = 0

\* Nothing of a run is on disk and no batch was supervised.
NothingWritten ==
    /\ results = << >> /\ supervised = << >>
    /\ ~ stray_batch_file
    /\ full_summary = << >> /\ partial_summary = << >>

\* C27: an empty test collection (inline or in the --tests file) and a
\* missing base config end the run with a non-zero exit code, before any
\* batch is supervised and with no batch file, config file or summary
\* written.
C27_FailFast ==
    (Terminated /\ (EmptyTests \/ ~ config_exists)) =>
        (exit_code # 0 /\ NothingWritten)

\* C27, the part the code keeps: without --tests, an empty inline
\* collection and a missing base config end the run at lines 358-364 with
\* exit code 1 and nothing written.
C27_InlineFailsFast ==
    (Terminated /\ ~ tests_arg /\ (EmptyTests \/ ~ config_exists)) =>
        (exit_code = 1 /\ NothingWritten)

\* An empty inline collection stopped the run with nothing written.
C27_WitnessInline ==
    /\ Terminated /\ ~ tests_arg /\ EmptyTests /\ config_exists
    /\ exit_code = 1 /\ NothingWritten

\* An empty --tests file: the run completed with code 0 and a summary.
C27_WitnessEmptyFile ==
    /\ Terminated /\ tests_arg /\ EmptyTests
    /\ exit_code = 0 /\ full_summary = << results >>

\* --tests given, base config missing: the batch file of the first batch
\* was written before create_batch_config failed.
C27_WitnessStrayBatchFile ==
    /\ Terminated /\ tests_arg /\ ~ config_exists /\ stray_batch_file
    /\ exit_code = 1


\* ---------------------------------------------------------------------
\* The merged artifact of a run (main, lines 507-548)
\* ---------------------------------------------------------------------

\* At least one batch of the run has the recorded outcome success.
SomeSuccess == success_count(results) > 0

\* C28: after a run that completed without halting, the merged artifact
\* was written if and only if some batch has the recorded outcome success;
\* the full summary is written either way.
C28_MergedIffSuccess ==
    Completed => (full_summary = << results >> /\ (merged <=> SomeSuccess))

\* C28, the part the code keeps: a completed run wrote the full summary,
\* wrote no merged artifact without a success, and wrote one when a batch
\* succeeded and a results file is in the batch directory.
C28_MergedOnlyIfSuccess ==
    Completed =>
        /\ full_summary = << results >>
        /\ merged => SomeSuccess
        /\ (SomeSuccess /\ results_on_disk) => merged

\* A completed run with a success outcome, no results file and no merged
\* artifact.
C28_WitnessSuccessNoFile ==
    /\ Completed /\ SomeSuccess /\ ~ results_on_disk /\ ~ merged

\* A completed run of failed, timeout and error outcomes with results
\* files on disk: full summary, no merged artifact.
C28_WitnessNoSuccess ==
    /\ Completed /\ Len(results) = 3 /\ ~ SomeSuccess /\ results_on_disk
    /\ full_summary = << results >> /\ ~ merged

\* A completed run with a success whose merged artifact was written.
C28_WitnessMerged ==
    /\ Completed /\ SomeSuccess /\ merged


\* ---------------------------------------------------------------------
\* Rate limits met during escalation (_try_fallback_models, lines 279-298)
\* ---------------------------------------------------------------------

\* The k-th run_batch call made for the current batch was rate-limited.
RateLimitedAt(k) == attempts[k].status = "rate_limited"

\* C29: the first rate_limited outcome of any run_batch call of a run, a
\* fallback candidate's included, halts the run: it is the last call made
\* and the run has exited through the halt path.
C29_FirstRateLimitHalts ==
    \A k \in DOMAIN attempts :
        RateLimitedAt(k) => (k = Len(attempts) /\ Halted)

\* C29, the part the code keeps: a rate_limited primary attempt is the
\* only call made for its batch and halts the run.
C29_PrimaryRateLimitHalts ==
    (attempts # << >> /\ RateLimitedAt(1)) => (Len(attempts) = 1 /\ Halted)

\* A primary attempt was rate-limited and the run halted.
C29_WitnessPrimary ==
    /\ attempts # << >> /\ RateLimitedAt(1) /\ Halted

\* A fallback candidate was rate-limited and the next candidate was run
\* and adopted; the run went on to the next batch.
C29_WitnessCandidateGoesOn ==
    /\ Len(attempts) = 3 /\ RateLimitedAt(2)
    /\ attempts[3].status = "success"
    /\ pc = "loop" /\ Len(results) = 1 /\ exit_code = -1


\* ---------------------------------------------------------------------
\* Error outcomes (main, lines 488-494)
\* ---------------------------------------------------------------------

\* The primary attempt of the current batch ended with an error outcome.
ErrorOutcome == result = "error" /\ attempts # << >>

\* C30: an error outcome adds one to the failure counter and never calls
\* the fallback selector, fallback enabled or not; the run halts if and
\* only if the counter has then reached the threshold, and otherwise goes
\* on to the next batch with the model it had.
C30_ErrorCountsNoFallback ==
    ErrorOutcome =>
        /\ consecutive_api_errors = errors_at_start + 1
        /\ attempts = << Attempt(current_model, "error") >>
        /\ pc # "fallback"
        /\ Last(results).status = "error"
        /\ Halted <=> consecutive_api_errors >= MAX_CONSECUTIVE_FAILURES
        /\ ~ Halted => (pc \in {"cooldown", "loop"} \/ Completed)

\* With fallback enabled, an error after a success left the counter at 1
\* and the run went on to the third batch with no candidate tried.
C30_Witness ==
    /\ ErrorOutcome /\ ~ no_fallback
    /\ consecutive_api_errors = 1 /\ Len(attempts) = 1
    /\ pc = "loop" /\ Len(results) = 2 /\ i < end_idx
    /\ results[1].status = "success"

\* With fallback enabled, an error that brought the counter to the
\* threshold halted the run.
C30_WitnessHalt ==
    /\ ErrorOutcome /\ ~ no_fallback /\ Halted
    /\ consecutive_api_errors = MAX_CONSECUTIVE_FAILURES


\* ======================================================================
\* Rate-limit phrases without the code 429 (check_api_errors, lines 128-133)
\* ======================================================================

\* The error string carries the phrase "rate limit", in any case, and not
\* the literal code 429.
PhraseWithoutCode(error) ==
    In("rate limit", Lower(error)) /\ ~ In("429", error)

\* The Classifier has scanned a readable artifact.
Scanned == cls_pc = "done" /\ cls_file # << >> /\ cls_file[1].valid

\* C34: an error string with a rate-limit phrase and without the code 429
\* ('Rate limit', 'rate limit exceeded') is a rate-limit marker: an
\* artifact holding such a record is classified rate_limited.
C34_PhraseIsMarker ==
    (Scanned /\ \E k \in DOMAIN cls_file[1].errors :
                    PhraseWithoutCode(cls_file[1].errors[k])) =>
        cls_out[1] = "429_rate_limit"

\* C34, the part the code keeps: the phrase "Too Many Requests", in that
\* spelling, is a marker without the code.
C34_TooManyRequestsIsMarker ==
    (Scanned /\ \E k \in DOMAIN cls_file[1].errors :
                    In("Too Many Requests", cls_file[1].errors[k])) =>
        cls_out[1] = "429_rate_limit"

\* An artifact whose only record says "Rate limit" was classified none.
C34_WitnessPhraseMissed ==
    /\ Scanned
    /\ cls_file[1].errors = << << "Rate limit" >> >>
    /\ cls_out = << None, 0, 0 >>

\* "Too Many Requests" alone was classified rate_limited.
C34_WitnessTooManyRequests ==
    /\ Scanned
    /\ cls_file[1].errors = << << "Too Many Requests" >> >>
    /\ cls_out = << "429_rate_limit", 1, 0 >>


\* ======================================================================
\* The Supervisor's status after a normal exit (run_batch, lines 207-238)
\* ======================================================================

\* The call returned a status after the tool exited by itself (an
\* exception raised after the exit gives error through the outer handler).
NormalExit == SupReturned /\ process = "exited" /\ sup_result # "error"

\* What the Classifier reports for the file at output_json.
Classification == check_api_errors(output_json)[1]

\* The artifact carries an infrastructure signature: a record with a
\* rate-limit or an overload marker.
InfraSignature ==
    /\ output_json # << >>
    /\ \E k \in DOMAIN output_json[1].errors :
          \/ HasRateLimitMarker(output_json[1].errors[k])
          \/ HasOverloadMarker(output_json[1].errors[k])

\* C31: after a normal exit the status is rate_limited or
\* service_overloaded whenever the Classifier reports that kind, whatever
\* the exit code; otherwise success for exit code 0, failed for a non-zero
\* exit code with no infrastructure signature, and error in the remaining
\* cases.
C31_StatusOfNormalExit ==
    [][SupExited =>
        sup_result' =
            IF Classification = "429_rate_limit" THEN "rate_limited"
            ELSE IF Classification = "503_overloaded" THEN "service_overloaded"
            ELSE IF return_code = 0 THEN "success"
            ELSE IF ~ InfraSignature THEN "failed"
            ELSE "error"]_vars

\* C31, the part the code keeps: the status is the Classifier's kind when
\* it reports one, else success for exit code 0 and failed for any other
\* exit code; a normal exit never gives error.
C31_ClassificationThenExitCode ==
    [][SupExited =>
        /\ Classification = "429_rate_limit" => sup_result' = "rate_limited"
        /\ Classification = "503_overloaded" => sup_result' = "service_overloaded"
        /\ (Classification = None /\ return_code = 0) => sup_result' = "success"
        /\ (Classification = None /\ return_code # 0) => sup_result' = "failed"]_vars

\* The tool exited with code 0 having written rate-limit records: the
\* status is rate_limited.
C31_WitnessRateLimitedExitZero ==
    /\ NormalExit /\ wrote /\ return_code = 0
    /\ Classification = "429_rate_limit" /\ sup_result = "rate_limited"

\* The tool exited with code 1 having written a record that says
\* "Rate limit": the status is failed.
C31_WitnessSignatureFailed ==
    /\ NormalExit /\ wrote /\ return_code = 1
    /\ InfraSignature /\ Classification = None
    /\ sup_result = "failed"


\* ======================================================================
\* The model after an adoption (main, lines 375-377 and 400-405;
\* _try_fallback_models, lines 266-289)
\* ======================================================================

\* The Gemini-family models the run started with: those of the config the
\* first batch is materialized with (the config's own, or --model).
StartModels ==
    LET first == create_batch_config(providers, model_arg)
    IN  {first[k] : k \in {j \in DOMAIN first : IsGeminiFamily(first[j])}}

Roster == {FALLBACK_MODELS[k] : k \in DOMAIN FALLBACK_MODELS}

\* current_model is no longer the --model value: a candidate was adopted.
AdoptedBefore == current_model # model_arg

\* The step makes a run_batch call.
AttemptStep == attempts' # attempts

\* The primary attempt of the step runs the model in current_model.
PrimaryUsesCurrent ==
    /\ attempts'[1].model = current_model
    /\ \A k \in DOMAIN providers :
          IsGeminiFamily(providers[k]) => attempts'[1].config[k] = current_model

\* The attempt of the step runs none of the models the run started with.
AvoidsStartModels ==
    \A k \in DOMAIN Last(attempts').config :
        Last(attempts').config[k] \notin StartModels

C32_WitnessBackToStart ==
    /\ model_arg = FALLBACK_MODELS[2]
    /\ Len(results) = 2 /\ Len(attempts) = 2
    /\ attempts[1].model = FALLBACK_MODELS[1]
    /\ attempts[2].model = model_arg


\* ======================================================================
\* The resume command (_save_partial_and_exit, lines 301-318; the range of
\* the resumed run, main, lines 371-373)
\* ======================================================================

\* The batches a run started with `--start n` and no --end supervises.
ResumedRange(n) ==
    {k \in 1..total_batches :
        StartIdx(n) + 1 <= k /\ k <= EndIdx(0, total_batches)}

\* The batches of this run's range from batch n on.
FromBatch(n) == {k \in InRange : k >= n}

C33_WitnessRateLimit ==
    /\ Halted /\ Len(results) = 1 /\ results[1].status = "rate_limited"
    /\ start_idx = 0 /\ resume_hint = << 1 >>


\* ======================================================================
\* Token usage of the merged artifact (merge_results, lines 61-66)
\* ======================================================================

\* The sub-counters occurring in the token usage of some artifact.
SubCounters(fs) == UNION {DOMAIN fs[k].stats.tokenUsage : k \in DOMAIN fs}

\* Sum of one sub-counter over the artifacts, 0 where it is missing.
SumUsage(fs, key) ==
    SumSeq([k \in DOMAIN fs |-> Get(fs[k].stats.tokenUsage, key, 0)])

\* The merged token usage has sub-counter key with the sum as its value.
UsageIsSum(key) ==
    /\ key \in DOMAIN merged_file[1].stats.tokenUsage
    /\ merged_file[1].stats.tokenUsage[key] = SumUsage(batch_files, key)

\* C35: for every token-usage sub-counter occurring in any merged
\* artifact, the merged stats block's value for it is the sum of its
\* values over all artifacts, a missing sub-counter counting as 0.
C35_EverySubCounterSummed ==
    (mrg_pc = "done" /\ batch_files # << >>) =>
        \A key \in SubCounters(batch_files) : UsageIsSum(key)

\* C35, the part the code keeps: the sub-counters prompt, completion,
\* cached and total are summed.
C35_NamedSubCountersSummed ==
    (mrg_pc = "done" /\ batch_files # << >>) =>
        \A key \in SubCounters(batch_files) \cap
                       {"prompt", "completion", "cached", "total"} :
            UsageIsSum(key)

\* Two artifacts with numRequests = 1 each merged to numRequests = 1, and
\* total = 3 each merged to total = 6.
C35_WitnessNumRequests ==
    /\ mrg_pc = "done" /\ Len(batch_files) = 2
    /\ batch_files[1].stats.tokenUsage.total = 3
    /\ batch_files[2].stats.tokenUsage.total = 3
    /\ merged_file[1].stats.tokenUsage.total = 6
    /\ merged_file[1].stats.tokenUsage.numRequests = 1

\* A base without `cached` and a second artifact with cached = 1 merged to
\* cached = 1.
C35_WitnessMissingInBase ==
    /\ mrg_pc = "done" /\ Len(batch_files) = 2
    /\ "cached" \notin DOMAIN batch_files[1].stats.tokenUsage
    /\ merged_file[1].stats.tokenUsage.total = 5
    /\ merged_file[1].stats.tokenUsage.cached = 1


\* ======================================================================
\* The failure counter at the start of a batch (main, lines 375-377 and
\* 414-494)
\* ======================================================================

\* main is at the top of a loop iteration or on its way there.
BetweenBatches == pc \in {"loop", "cooldown"}

\* C36: at the start of every batch the consecutive-failure counter c
\* satisfies 0 <= c < N: an increment that reaches N with no candidate
\* adopted halts the run in the same iteration.
C36_CounterBelowThreshold ==
    /\ BetweenBatches =>
          (0 <= consecutive_api_errors
              /\ consecutive_api_errors < MAX_CONSECUTIVE_FAILURES)
    /\ (pc = "exit" /\ consecutive_api_errors >= MAX_CONSECUTIVE_FAILURES) =>
          (Halted /\ consecutive_api_errors = MAX_CONSECUTIVE_FAILURES)

\* The third batch is about to start with the counter at N - 1, after a
\* success and an unrecovered timeout whose candidates were all rejected.
C36_Witness ==
    /\ pc = "loop" /\ i < end_idx /\ Len(results) = 2
    /\ ~ no_fallback
    /\ results[2].status = "timeout"
    /\ Len(attempts) = 1 + Len(FALLBACK_MODELS)
    /\ consecutive_api_errors = MAX_CONSECUTIVE_FAILURES - 1

\* The counter reached N on the second batch and the run halted there.
C36_WitnessHalt ==
    /\ Halted /\ Len(results) = 2
    /\ results[2].status = "error"
    /\ consecutive_api_errors = MAX_CONSECUTIVE_FAILURES


\* ======================================================================
\* Artifacts left by earlier attempts (run_batch, lines 152-162 and
\* 207-238; _try_fallback_models, lines 275-279)
\* ======================================================================

\* What this call's process wrote at output_json: nothing, or the file.
OwnOutput == IF wrote THEN output_json ELSE << >>

\* The file at output_json was left there by an earlier attempt.
StaleArtifact == output_json # << >> /\ ~ wrote

\* C37: the status of a call depends only on what its own process wrote;
\* an artifact left at the same path by an earlier attempt never
\* determines the classification of an attempt whose tool exits without
\* writing its output.
C37_OwnOutputOnly ==
    [][SupExited =>
          sup_result' =
              RunBatchStatus(check_api_errors(OwnOutput)[1], return_code)]_vars

\* C37, the part the code keeps: when the tool wrote its output, the file
\* of the earlier attempt is replaced and the status is that of the new
\* artifact and the exit code.
C37_OverwrittenArtifactIgnored ==
    [][(SupExited /\ wrote) =>
          sup_result' =
              RunBatchStatus(check_api_errors(OwnOutput)[1], return_code)]_vars

\* The tool exited with code 0 without writing; the rate-limit artifact of
\* an earlier attempt made the status rate_limited.
C37_WitnessStaleRateLimit ==
    /\ SupReturned /\ process = "exited" /\ return_code = 0
    /\ StaleArtifact
    /\ check_api_errors(output_json)[1] = "429_rate_limit"
    /\ sup_result = "rate_limited"

\* A second call for the same batch: the first wrote overload records,
\* the second wrote a clean artifact over them and reported success.
C37_WitnessOverwritten ==
    /\ SupReturned /\ process = "exited" /\ return_code = 0 /\ wrote
    /\ check_api_errors(output_json)[1] = None
    /\ sup_result = "success"


\* ======================================================================
\* Batches left behind by a halt (main, lines 425-443 and 488-494;
\* _save_partial_and_exit, lines 301-318)
\* ======================================================================

\* The outcomes of the partial summary for batches below the hint.
BelowHint ==
    {k \in DOMAIN partial_summary[1] :
        partial_summary[1][k].batch_num < resume_hint[1]}

\* C38: whenever a run halts, every batch numbered below the --start value
\* of the hint has the recorded outcome success or failed in the partial
\* summary: resuming from the hint leaves no batch with a timeout,
\* service_overloaded or error outcome that is never run again.
C38_NothingUnresolvedBelowHint ==
    Halted =>
        \A k \in BelowHint :
            partial_summary[1][k].status \in {"success", "failed"}

\* C38, the part the code keeps: every batch of the range below the hint
\* has a recorded outcome, and none of them is rate_limited.
C38_BelowHintRecorded ==
    Halted =>
        /\ {partial_summary[1][k].batch_num : k \in BelowHint}
              = {n \in InRange : n < resume_hint[1]}
        /\ \A k \in BelowHint : partial_summary[1][k].status # "rate_limited"

\* Batch 1 timed out under the threshold, batch 2 succeeded, batch 3 was
\* rate-limited: the hint is --start 3 and batch 1 stays timed out.
C38_WitnessTimeoutLeftBehind ==
    /\ Halted /\ start_idx = 0 /\ resume_hint = << 3 >>
    /\ partial_summary[1][1].status = "timeout"
    /\ partial_summary[1][2].status = "success"
    /\ partial_summary[1][3].status = "rate_limited"


\* ======================================================================
\* The prompts block of the merged artifact (merge_results, lines 35-54
\* and 105-109)
\* ======================================================================

\* The prompt identifiers occurring on the merged records.
MergedPromptIds == {MergedResults[k].promptId : k \in DOMAIN MergedResults}

\* The merged prompts block has an entry for id carrying the aggregates
\* recomputed over the merged records.
HasEntry(id) ==
    \E k \in DOMAIN merged_file[1].prompts :
        /\ merged_file[1].prompts[k].id = id
        /\ merged_file[1].prompts[k].metrics
              = PromptMetrics(<< >>, MergedResults)[id]

\* The prompt identifiers of the base artifact's prompts block.
BasePromptIds ==
    {batch_files[1].prompts[k].id : k \in DOMAIN batch_files[1].prompts}

\* C39: after merging, every prompt identifier occurring on a merged
\* record has an entry in the merged prompts block carrying the recomputed
\* aggregates, also when it first appears in an artifact other than the
\* base; no aggregate computed for a prompt is dropped.
C39_EveryPromptHasEntry ==
    (mrg_pc = "done" /\ batch_files # << >>) =>
        \A id \in MergedPromptIds : HasEntry(id)

\* C39, the part the code keeps: the prompts of the base artifact's block
\* carry the recomputed aggregates, and the block has no other entry.
C39_BasePromptsHaveEntry ==
    (mrg_pc = "done" /\ batch_files # << >>) =>
        /\ \A id \in MergedPromptIds \cap BasePromptIds : HasEntry(id)
        /\ {merged_file[1].prompts[k].id : k \in DOMAIN merged_file[1].prompts}
              = BasePromptIds

\* The base ran prompt p1 only, the second artifact prompt p2: the merged
\* records have both, the merged prompts block has p1 alone.
C39_WitnessPromptDropped ==
    /\ mrg_pc = "done" /\ Len(batch_files) = 2
    /\ BasePromptIds = {"p1"}
    /\ MergedPromptIds = {"p1", "p2"}
    /\ Len(merged_file[1].prompts) = 1
    /\ merged_file[1].prompts[1].id = "p1"


\* ======================================================================
\* Termination of a run (main, lines 392-500; _try_fallback_models, lines
\* 266-298; run_batch, lines 183-205)
\* ======================================================================

\* Runs of the default config, with and without --no-fallback, over every
\* range within the batch list.
LiveInit ==
    /\ CtlInit(0, {<< "google:gemini-2.5-flash" >>}, {None})
    /\ OthersIdle("ctl")

\* Every run_batch call returns, and main takes its next step.
LiveSpec == LiveInit /\ [][Next]_vars /\ WF_vars(Next)

\* The number of batches in the range of the run.
BatchesInRange == Cardinality(InRange)

\* The run_batch calls made so far are within the bound: one primary
\* attempt per batch of the range, each batch once and in ascending order,
\* and per batch at most 1 + |roster| calls, the selector's index moving
\* forward with every call.
WithinBound ==
    /\ Len(supervised) <= BatchesInRange
    /\ \A j, k \in DOMAIN supervised : j < k => supervised[j] < supervised[k]
    /\ Len(attempts) <= 1 + Len(FALLBACK_MODELS)
    /\ pc = "fallback" => fb_idx > Len(attempts) - 1

\* C40: every run_batch call returning, every run over a finite range
\* terminates, by completion or by halt, after at most (batches in range)
\* x (1 + roster length) calls; main never loops on the same batch.
C40_TerminatesWithinBound ==
    /\ [] WithinBound
    /\ <> (pc = "exit")

\* A completed run of three batches in which every batch used the primary
\* attempt and all three candidates.
C40_Witness ==
    /\ Completed /\ Len(supervised) = 3 /\ BatchesInRange = 3
    /\ Len(attempts) = 1 + Len(FALLBACK_MODELS)
    /\ results[1].status = "failed" /\ results[2].status = "success"
    /\ results[3].status = "failed"
====
